---- MODULE Spec2Model ----
(***************************************************************************)
(* Session protocol of the neurostimulation experiment GUIs                *)
(* (conorkeogh/waveform_gui).                                              *)
(*                                                                         *)
(* Four programs are modelled, each from its own source file:              *)
(*   "hypoglossal"  src/hypoglossal_gui.py  calibration-based, 9 x 3       *)
(*                  multipliers, listener thread (spec variant B);         *)
(*   "amplitude"    src/amplitude_gui.py    free amplitude/measurement     *)
(*                  list, listener thread (spec variant A);                *)
(*   "testgui"      src/testgui.py          multi-threshold, 8 randomised  *)
(*                  waveforms, no listener (spec variant C; the claims     *)
(*                  cite this program as waveform_gui).                    *)
(*   "waveform"     src/waveform_gui.py     free waveform testing, no      *)
(*                  Interface object, no dataset, no listener (the claims  *)
(*                  cite this program as testgui).                         *)
(*                                                                         *)
(* The state is the DearPyGui item state the callbacks read and write      *)
(* (enabled flags, widget and status values), the Interface object, the    *)
(* device, the listener thread's position, and the files on disk.          *)
(* One action per callback; the operator can only trigger the callback of  *)
(* an enabled button, and callbacks run one at a time (pc).                *)
(***************************************************************************)
EXTENDS Integers, Sequences, FiniteSets, TLC

VARIABLES
    variant,      \* which program is running (fixed by Init)
    enabled,      \* set of item tags with enabled=True (configure_item)
    value,        \* item tag -> value (get_value / set_value)
    interface,    \* the fields of the global Interface object
    device,       \* the WaveWriter device: port open, stimulating
    serialThread, \* position of the monitor_serial thread
    pc,           \* position of the callback thread ("idle" between callbacks)
    disk,         \* path -> what is at the path (os.path.exists, open 'w')
    last,         \* the last callback run, how it ended, and what it sent
                  \* to the device or wrote to disk (history)
    entered       \* history: what the operator recorded in this session

vars == <<variant, enabled, value, interface, device, serialThread, pc, disk,
          last, entered>>

-----------------------------------------------------------------------------
(* Bounds of the model *)

\* hypoglossal_gui administers 27 trials (9 multipliers x 3 repeats); the
\* model keeps the first NumTrials entries of that array.
NumTrials == 2
\* amplitude_gui appends measurements without limit; the model stops at
\* MaxMeasures appended rows.
MaxMeasures == 2
\* testgui randomises NUM_WAVEFORMS = 8 waveforms; the model keeps the
\* first NumWaveforms of them.
NumWaveforms == 3
\* The tolerance thresholds (mA) for which the written rows are computed
\* one by one: 0 .. MaxThreshold.
MaxThreshold == 100

\* What the operator can type.
ParticipantInputs == {"", "P1"}
\* Session IDs typed in amplitude_gui and in testgui (free text).
amplitude_SessionInputs == {"", "S1"}
testgui_SessionInputs == {"", "S1", "S2"}
SessionRadioItems == {"Hyomental", "Tongue"}
MeasureInputs == {1, 2}
ThresholdInputs == {0, 15}
AmplitudeInputs == {5, 7}

Unset == "<unset>"      \* an attribute that was never assigned
\* What is at a path: no file; a file that was there before the program
\* started; a dataset the program wrote to a free path; a file the program
\* wrote over.  The program never reads a file back: the rows of a dataset
\* are kept with the step that wrote it (last).
Absent == "absent"
Original == "original"
Dataset == "dataset"
Overwritten == "overwritten"

-----------------------------------------------------------------------------
(* DearPyGui item state *)

\* configure_item(tag, enabled=flag), applied to the set of enabled tags.
configure_item(en, tag, flag) == IF flag THEN en \cup {tag} ELSE en \ {tag}

\* A run of configure_item calls, in source order: <<tag, flag>> pairs.
RECURSIVE configure_items(_, _)
configure_items(en, calls) ==
    IF calls = << >> THEN en
    ELSE configure_items(configure_item(en, Head(calls)[1], Head(calls)[2]),
                         Tail(calls))

\* set_value(tag, v)
set_value(val, tag, v) == [val EXCEPT ![tag] = v]

RECURSIVE set_values(_, _)
set_values(val, calls) ==
    IF calls = << >> THEN val
    ELSE set_values(set_value(val, Head(calls)[1], Head(calls)[2]), Tail(calls))

\* os.path.exists(path)
exists(path) == path \in DOMAIN disk /\ disk[path] # Absent

\* with open(path, 'w') as file: ... file.close(): whatever was at the path
\* is replaced by the dataset.
written(path) ==
    [p \in DOMAIN disk |->
        IF p # path THEN disk[p]
        ELSE IF disk[p] = Absent THEN Dataset ELSE Overwritten]

\* A shuffle that draws each position independently (with replacement).
shuffle_with_replacement(arr) ==
    {[i \in DOMAIN arr |-> arr[s[i]]] : s \in [DOMAIN arr -> DOMAIN arr]}

\* Permutations of a finite function's values: np.random.shuffle(arr)
\* rearranges arr in place, every rearrangement possible.
Bijections(S) == {f \in [S -> S] : \A y \in S : \E x \in S : f[x] = y}
shuffle(arr) == {[i \in DOMAIN arr |-> arr[s[i]]] : s \in Bijections(DOMAIN arr)}

-----------------------------------------------------------------------------
(* The device and its serial lines *)

\* Lines the device can deliver on the serial port.
Lines == {"Hello", "On\r\n", "Off\r\n", "42\r\n", "mA?\r\n", "\\xff"}

\* response.decode("utf-8") raises UnicodeDecodeError on these.
Undecodable == {"\\xff"}
\* A test for any line that starts with a capital O.
ContainsOn_capital_O(val) == val \in {"On\r\n", "Off\r\n"}

\* 'On' in val, 'Off' in val
ContainsOn(val) == val \in {"On\r\n"}
ContainsOff(val) == val \in {"Off\r\n"}
\* int(val) succeeds exactly on these (int() ignores surrounding whitespace).
IsInt(val) == val \in {"42\r\n"}
int_of(val) == IF val = "42\r\n" THEN 42 ELSE 0

device_init == [open |-> FALSE, stimulating |-> FALSE]

-----------------------------------------------------------------------------
(* hypoglossal_gui: the Interface object *)

\* The list given to np.tile, in tenths (0.1 is 1).
hypoglossal_multiplier_list == <<1, 2, 3, 4, 5, 6, 7, 8, 9>>
hypoglossal_num_repeats == 3

\* np.tile(list, num_repeats): the list repeated num_repeats times.
tile(list, repeats) ==
    [k \in 0 .. Len(list) * repeats - 1 |-> list[(k % Len(list)) + 1]]

\* The array as the source builds it: all 27 multipliers.
hypoglossal_tiled == tile(hypoglossal_multiplier_list, hypoglossal_num_repeats)

\* self.multiplier_values = np.tile(list, self.num_repeats), of which the
\* model keeps the first NumTrials; self.NUM_MEASURES is its length.
hypoglossal_multiplier_values ==
    [k \in 0 .. NumTrials - 1 |-> hypoglossal_tiled[k]]
hypoglossal_NUM_MEASURES == Cardinality(DOMAIN hypoglossal_multiplier_values)

\* The multipliers are float64.  The double nearest to k/10 is
\* (k * 2^s + rho) / (10 * 2^s) with s = 53 + double_tenths_shift[k] and
\* rho = double_tenths_rho[k]: 0.3, 0.6 and 0.7 lie below their decimal.
double_tenths_rho == <<4, 4, -2, 4, 0, -2, -4, 4, 2>>
double_tenths_shift == <<3, 2, 1, 1, 0, 0, 0, 0, 0>>

RECURSIVE pow2(_)
pow2(e) == IF e = 0 THEN 1 ELSE 2 * pow2(e - 1)

\* The least e with n <= 2^e: doubles just below n are 2^(e-53) apart.
RECURSIVE binade(_, _)
binade(n, e) == IF n <= pow2(e) THEN e ELSE binade(n, e + 1)

\* int(x * multiplier) for an integer x >= 0 and a float64 multiplier given
\* in tenths (1 .. 9).  The product is the double nearest to x times the
\* multiplier's double, and int() truncates it: when x * tenths / 10 is a
\* whole number n and the multiplier's double lies below its decimal by more
\* than half the spacing of the doubles under n, the product rounds to a
\* double below n and the result is n - 1; otherwise it is the exact floor.
int_times(x, tenths) ==
    LET n == (x * tenths) \div 10
        rho == double_tenths_rho[tenths]
    IN  IF /\ (x * tenths) % 10 = 0 /\ n > 0 /\ rho < 0
           /\ 2 * x * (0 - rho)
                  > 10 * pow2(double_tenths_shift[tenths] + binade(n, 0))
        THEN n - 1
        ELSE n

hypoglossal_Interface ==
    [connected |-> FALSE, inputCheck |-> FALSE, ready |-> FALSE,
     calibrated |-> FALSE,
     amplitude_id |-> 0,
     multipliers |-> [k \in 0 .. hypoglossal_NUM_MEASURES - 1 |-> k],
     measures |-> [k \in 0 .. hypoglossal_NUM_MEASURES - 1 |-> 0],
     current_amplitude |-> 50,
     sessionType |-> Unset, filename |-> Unset]

\* The widgets as the window layout creates them.
hypoglossal_enabled == {"Connect"}
hypoglossal_value ==
    [t \in {"Participant##input", "Session ID##input", "Age##input",
            "Sex##input", "Baseline (mm)##input",
            "Tolerance threshold (mA)##input", "Measurement (mm)##input",
            "##DeviceStatus", "##SessionStatus",
            "##OverallStatus", "##StimulationStatus",
            "##CurrentAmplitude", "##NumMeasures"} |->
        CASE t = "Participant##input" -> ""
          [] t = "Session ID##input" -> "Hyomental"
          [] t = "Age##input" -> "30"
          [] t = "Sex##input" -> "Male"
          [] t = "##DeviceStatus" -> "Not connected"
          [] t = "##SessionStatus" -> "Not started"
          [] t = "##OverallStatus" -> "Ready to connect"
          [] t = "##StimulationStatus" -> "Off"
          [] t = "##CurrentAmplitude" -> "Not specified"
          [] t = "##NumMeasures" -> "0"
          [] OTHER -> 0]

hypoglossal_paths ==
    {p \o "_" \o t \o ".csv" : p \in ParticipantInputs \ {""},
                               t \in {"hyomental", "tongue"}}

\* Interface.parseInputs: the Interface after the call and the overall
\* status it sets ("" when it sets none).
hypoglossal_parseInputs(self) ==
    LET participantID == value["Participant##input"]
        sessionID == value["Session ID##input"]
        age == value["Age##input"]
        sessionType == IF sessionID = "Hyomental" THEN "hyomental"
                       ELSE IF sessionID = "Tongue" THEN "tongue"
                       ELSE self.sessionType
        filename == participantID \o "_" \o sessionType \o ".csv"
    IN  IF participantID = ""
        THEN [self |-> [self EXCEPT !.inputCheck = FALSE],
              status |-> "Enter participant ID"]
        ELSE IF sessionID = ""
        THEN [self |-> [self EXCEPT !.inputCheck = FALSE],
              status |-> "Enter session ID"]
        ELSE IF age = ""
        THEN [self |-> [self EXCEPT !.inputCheck = FALSE],
              status |-> "Enter age"]
        ELSE IF exists(filename)
        THEN [self |-> [self EXCEPT !.inputCheck = FALSE,
                                    !.sessionType = sessionType,
                                    !.filename = filename],
              status |-> "File already exists"]
        ELSE [self |-> [self EXCEPT !.inputCheck = TRUE,
                                    !.sessionType = sessionType,
                                    !.filename = filename],
              status |-> ""]

-----------------------------------------------------------------------------
(* hypoglossal_gui: status helpers and the waveform transfer *)

hypoglossal_start_stimulation_status(en) ==
    configure_items(en, << <<"Start", FALSE>>, <<"Stop", TRUE>>,
                           <<"Stimulate", FALSE>>, <<"Load", FALSE>>,
                           <<"End session", FALSE>>, <<"Next", FALSE>>,
                           <<"Done calibration", FALSE>> >>)

hypoglossal_stop_stimulation_status(en, calibrated) ==
    configure_items(en, << <<"Start", TRUE>>, <<"Stop", FALSE>>,
                           <<"Stimulate", TRUE>>, <<"Load", TRUE>>,
                           <<"End session", TRUE>>,
                           IF calibrated THEN <<"Next", TRUE>>
                           ELSE <<"Done calibration", TRUE>> >>)

\* send_waveform(): the buttons it leaves enabled, given whether
\* device.send_waveform returned (sent) or raised.
hypoglossal_send_waveform_enabled(en, calibrated, sent) ==
    LET off == configure_items(en, << <<"Start", FALSE>>,
                     <<"Stimulate", FALSE>>, <<"Load", FALSE>>,
                     <<"End session", FALSE>>, <<"Next", FALSE>> >>)
        on == configure_items(off, << <<"Duration (s)##input", TRUE>>,
                     <<"Stimulate", TRUE>>, <<"Load", TRUE>>,
                     <<"End session", TRUE>>, <<"Start", TRUE>>,
                     <<"Baseline (mm)##input", TRUE>>,
                     <<"Tolerance threshold (mA)##input", TRUE>>,
                     <<"Measure (mm)##input", TRUE>>,
                     <<"Measurement (mm)##input", TRUE>> >>)
    IN  IF ~sent THEN off
        ELSE IF calibrated THEN configure_item(on, "Next", TRUE) ELSE on

\* The wavelet handed to device.send_waveform: generated from
\* interface.current_amplitude at 10 kHz.
hypoglossal_waveform(self) == <<"wavelet", self.current_amplitude>>

-----------------------------------------------------------------------------
(* hypoglossal_gui: the callbacks *)

\* A step, how it ended, and its output: << >>, or the waveform handed to
\* device.send_waveform, or the <<path, dataset>> written.
StepOut(op, result, out) == [op |-> op, result |-> result, out |-> out]
Step(op, result) == StepOut(op, result, << >>)

\* connect_callback; device.connect() returns (ok) or raises.
hypoglossal_connect_callback(ok) ==
    /\ variant = "hypoglossal" /\ pc = "idle" /\ "Connect" \in enabled
    /\ IF ok
       THEN /\ device' = [device EXCEPT !.open = TRUE]
            /\ interface' = [interface EXCEPT !.connected = TRUE]
            /\ enabled' = configure_items(enabled,
                   << <<"Participant##input", TRUE>>,
                      <<"Session ID##input", TRUE>>, <<"Age##input", TRUE>>,
                      <<"Sex##input", TRUE>>, <<"Connect", FALSE>>,
                      <<"Start session", TRUE>>, <<"End session", FALSE>> >>)
            /\ value' = set_values(value,
                   << <<"##DeviceStatus", "Connected">>,
                      <<"##OverallStatus", "Device connected">> >>)
            /\ last' = Step("Connect", "ok")
       ELSE /\ last' = Step("Connect", "ConnectionError")
            /\ UNCHANGED <<device, interface, enabled, value>>
    /\ UNCHANGED <<variant, serialThread, pc, disk, entered>>

\* startSession_callback
hypoglossal_startSession_callback ==
    /\ variant = "hypoglossal" /\ pc = "idle" /\ "Start session" \in enabled
    /\ LET parsed == hypoglossal_parseInputs(interface)
       IN  IF parsed.self.inputCheck
           THEN /\ \E order \in shuffle(interface.multipliers) :
                       interface' = [parsed.self EXCEPT !.amplitude_id = 0,
                                                        !.multipliers = order]
                /\ enabled' = configure_items(enabled,
                       << <<"Participant##input", FALSE>>,
                          <<"Session ID##input", FALSE>>,
                          <<"Age##input", FALSE>>, <<"Sex##input", FALSE>>,
                          <<"End session", TRUE>>, <<"Start session", FALSE>>,
                          <<"Load", TRUE>> >>)
                /\ value' = set_values(value,
                       << <<"##SessionStatus", "Started">>,
                          <<"##OverallStatus", "Session started">> >>)
                /\ entered' = << >>
                /\ last' = Step("StartSession", "ok")
           ELSE /\ interface' = parsed.self
                /\ value' = set_value(value, "##OverallStatus", parsed.status)
                /\ last' = Step("StartSession", parsed.status)
                /\ UNCHANGED <<enabled, entered>>
    /\ UNCHANGED <<variant, device, serialThread, pc, disk>>

\* One trial row of the dataset: int(threshold_current * multiplier), the
\* multiplier, the measure stored for the trial.
hypoglossal_row(threshold_current, multiplier, measure) ==
    <<int_times(threshold_current, multiplier), multiplier, measure>>

\* A dataset that stops at the cursor: one row per trial recorded so far.
hypoglossal_dataset_up_to_cursor ==
    LET threshold_current == value["Tolerance threshold (mA)##input"]
    IN  [identity |-> <<value["Participant##input"], interface.sessionType,
                        value["Age##input"], value["Sex##input"]>>,
         calibration |-> << <<0, 0, value["Baseline (mm)##input"]>>,
                            <<threshold_current, 10,
                              value["Measurement (mm)##input"]>> >>,
         rows |-> [idx \in 1 .. interface.amplitude_id |->
                     hypoglossal_row(threshold_current,
                                     hypoglossal_multiplier_values[idx - 1],
                                     interface.measures[idx - 1])]]

\* The dataset endSession_callback writes: the identity row, the two
\* calibration rows, then one row per idx in range(NUM_MEASURES).
hypoglossal_dataset ==
    LET threshold_current == value["Tolerance threshold (mA)##input"]
    IN  [identity |-> <<value["Participant##input"], interface.sessionType,
                        value["Age##input"], value["Sex##input"]>>,
         calibration |-> << <<0, 0, value["Baseline (mm)##input"]>>,
                            <<threshold_current, 10,
                              value["Measurement (mm)##input"]>> >>,
         rows |-> [idx \in 1 .. hypoglossal_NUM_MEASURES |->
                     hypoglossal_row(threshold_current,
                                     hypoglossal_multiplier_values[idx - 1],
                                     interface.measures[idx - 1])]]

\* An endSession_callback that resets the session in a `finally`: the flags
\* and the records are cleared and the buttons disabled whether or not the
\* file could be opened.
hypoglossal_endSession_callback_finally(ok) ==
    /\ variant = "hypoglossal" /\ pc = "idle" /\ "End session" \in enabled
    /\ IF interface.sessionType = Unset \/ interface.filename = Unset
       THEN /\ last' = Step("EndSession", "AttributeError")
            /\ UNCHANGED <<disk, interface, enabled, value>>
       ELSE /\ disk' = IF ok THEN written(interface.filename) ELSE disk
            /\ interface' = [interface EXCEPT
                                !.connected = FALSE, !.ready = FALSE,
                                !.calibrated = FALSE,
                                !.measures = hypoglossal_Interface.measures]
            /\ enabled' = {"Connect"}
            /\ value' = set_values(value,
                   << <<"##SessionStatus", "Not started">>,
                      <<"##DeviceStatus", "Not connected">>,
                      <<"##OverallStatus", "Ready to connect">> >>)
            /\ last' = IF ok
                       THEN StepOut("EndSession", "ok",
                                    <<interface.filename, hypoglossal_dataset>>)
                       ELSE Step("EndSession", "IOError")
    /\ UNCHANGED <<variant, device, serialThread, pc, entered>>

\* endSession_callback; open(filename, 'w') succeeds (ok) or raises.
hypoglossal_endSession_callback(ok) ==
    /\ variant = "hypoglossal" /\ pc = "idle" /\ "End session" \in enabled
    /\ IF interface.sessionType = Unset \/ interface.filename = Unset
       THEN /\ last' = Step("EndSession", "AttributeError")
            /\ UNCHANGED <<disk, interface, enabled, value>>
       ELSE IF ~ok
       THEN /\ last' = Step("EndSession", "IOError")
            /\ UNCHANGED <<disk, interface, enabled, value>>
       ELSE /\ disk' = written(interface.filename)
            /\ interface' = [interface EXCEPT !.connected = FALSE,
                                              !.ready = FALSE,
                                              !.calibrated = FALSE]
            /\ enabled' = configure_items(enabled,
                   << <<"Connect", TRUE>>, <<"Start session", FALSE>>,
                      <<"End session", FALSE>>,
                      <<"Duration (s)##input", FALSE>>, <<"Load", FALSE>>,
                      <<"Stimulate", FALSE>>, <<"Start", FALSE>>,
                      <<"Baseline (mm)##input", FALSE>>,
                      <<"Tolerance threshold (mA)##input", FALSE>>,
                      <<"Measure (mm)##input", FALSE>>,
                      <<"Measurement (mm)##input", FALSE>>,
                      <<"Next", FALSE>>, <<"Done calibration", FALSE>> >>)
            /\ value' = set_values(value,
                   << <<"##SessionStatus", "Not started">>,
                      <<"##DeviceStatus", "Not connected">>,
                      <<"##OverallStatus", "Ready to connect">> >>)
            /\ last' = StepOut("EndSession", "ok",
                                <<interface.filename, hypoglossal_dataset>>)
    /\ UNCHANGED <<variant, device, serialThread, pc, entered>>

\* send_waveform_callback (the Load button); device.send_waveform returns
\* (sent) or raises.
hypoglossal_send_waveform_callback(sent) ==
    /\ variant = "hypoglossal" /\ pc = "idle" /\ "Load" \in enabled
    /\ LET en == hypoglossal_send_waveform_enabled(enabled,
                     interface.calibrated, sent)
       IN  IF sent
           THEN /\ interface' = [interface EXCEPT !.ready = TRUE]
                /\ enabled' = configure_items(en,
                       << <<"Done calibration", TRUE>>, <<"Load", FALSE>> >>)
                /\ last' = StepOut("Load", "ok",
                                    hypoglossal_waveform(interface))
           ELSE /\ enabled' = en
                /\ last' = Step("Load", "TransmissionError")
                /\ UNCHANGED interface
    /\ UNCHANGED <<variant, value, device, serialThread, pc, disk, entered>>

\* start_stimulation_callback
hypoglossal_start_stimulation_callback ==
    /\ variant = "hypoglossal" /\ pc = "idle" /\ "Start" \in enabled
    /\ enabled' = hypoglossal_start_stimulation_status(enabled)
    /\ value' = set_value(value, "##StimulationStatus", "On")
    /\ device' = [device EXCEPT !.stimulating = TRUE]
    /\ last' = Step("StartStimulation", "ok")
    /\ UNCHANGED <<variant, interface, serialThread, pc, disk, entered>>

\* stop_stimulation_callback
hypoglossal_stop_stimulation_callback ==
    /\ variant = "hypoglossal" /\ pc = "idle" /\ "Stop" \in enabled
    /\ device' = [device EXCEPT !.stimulating = FALSE]
    /\ enabled' = hypoglossal_stop_stimulation_status(enabled,
                                                      interface.calibrated)
    /\ value' = set_value(value, "##StimulationStatus", "Off")
    /\ last' = Step("StopStimulation", "ok")
    /\ UNCHANGED <<variant, interface, serialThread, pc, disk, entered>>

\* stimulate_callback up to time.sleep(dur): start_stimulation().
\* The duration is taken as non-negative here (time.sleep returns); the
\* waveform_gui model follows a negative one.
hypoglossal_stimulate_callback ==
    /\ variant = "hypoglossal" /\ pc = "idle" /\ "Stimulate" \in enabled
    /\ enabled' = hypoglossal_start_stimulation_status(enabled)
    /\ value' = set_value(value, "##StimulationStatus", "On")
    /\ device' = [device EXCEPT !.stimulating = TRUE]
    /\ pc' = "stimulate_callback: sleep"
    /\ last' = Step("TimedStimulate", "sleeping")
    /\ UNCHANGED <<variant, interface, serialThread, disk, entered>>

\* stimulate_callback after time.sleep(dur) returns: stop_stimulation().
hypoglossal_stimulate_callback_wake ==
    /\ variant = "hypoglossal" /\ pc = "stimulate_callback: sleep"
    /\ device' = [device EXCEPT !.stimulating = FALSE]
    /\ enabled' = hypoglossal_stop_stimulation_status(enabled,
                                                      interface.calibrated)
    /\ value' = set_value(value, "##StimulationStatus", "Off")
    /\ pc' = "idle"
    /\ last' = Step("TimedStimulate", "ok")
    /\ UNCHANGED <<variant, interface, serialThread, disk, entered>>

\* A store under the administration position instead of the canonical index.
hypoglossal_measure_slot_by_position(self) == self.amplitude_id

\* The slot add_measure_callback stores into:
\* interface.measures[interface.multipliers[interface.amplitude_id]].
hypoglossal_measure_slot(self) == self.multipliers[self.amplitude_id]

\* The canonical index of the trial at the cursor (AdministrationOrder[cursor]).
hypoglossal_canonical_index == interface.multipliers[interface.amplitude_id]

\* What add_measure_callback does once the slot index is known to exist.
hypoglossal_add_measure(measure, sent) ==
    LET stored == [interface EXCEPT
                      !.measures[hypoglossal_measure_slot(interface)] = measure,
                      !.amplitude_id = @ + 1]
        counted == set_value(value, "##NumMeasures",
                             ToString(stored.amplitude_id))
    IN  /\ entered' = (hypoglossal_canonical_index :> measure) @@ entered
        /\ IF stored.amplitude_id < hypoglossal_NUM_MEASURES
           THEN LET next == [stored EXCEPT !.current_amplitude =
                        int_times(50, hypoglossal_multiplier_values[
                                        stored.multipliers[stored.amplitude_id]])]
                    en == hypoglossal_send_waveform_enabled(enabled,
                              next.calibrated, sent)
                IN  /\ enabled' = en
                    /\ IF sent
                       THEN /\ interface' = [next EXCEPT !.ready = TRUE]
                            /\ last' = StepOut("Next", "ok",
                                                hypoglossal_waveform(next))
                       ELSE /\ interface' = next
                            /\ last' = Step("Next", "TransmissionError")
                    /\ value' = counted
           ELSE /\ interface' = stored
                /\ enabled' = configure_items(enabled,
                       << <<"Start session", FALSE>>, <<"End session", TRUE>>,
                          <<"Duration (s)##input", FALSE>>, <<"Load", FALSE>>,
                          <<"Stimulate", FALSE>>, <<"Start", FALSE>>,
                          <<"Baseline (mm)##input", FALSE>>,
                          <<"Tolerance threshold (mA)##input", FALSE>>,
                          <<"Measure (mm)##input", FALSE>>,
                          <<"Measurement (mm)##input", FALSE>>,
                          <<"Next", FALSE>> >>)
                /\ value' = set_value(counted, "##OverallStatus",
                                      "Session complete")
                /\ last' = Step("Next", "Session complete")

\* An add_measure_callback whose index past the end wraps round to the
\* first position instead of raising.
hypoglossal_add_measure_callback_wrapping(measure, sent) ==
    /\ variant = "hypoglossal" /\ pc = "idle" /\ "Next" \in enabled
    /\ IF interface.amplitude_id >= hypoglossal_NUM_MEASURES
       THEN /\ interface' = [interface EXCEPT
                                !.measures[interface.multipliers[0]] = measure]
            /\ last' = Step("Next", "ok")
            /\ UNCHANGED <<enabled, value, entered>>
       ELSE hypoglossal_add_measure(measure, sent)
    /\ UNCHANGED <<variant, device, serialThread, pc, disk>>

\* add_measure_callback (the Next button) with the value of the Measure
\* input; indexing multipliers past its end raises IndexError before
\* anything is stored.
hypoglossal_add_measure_callback(measure, sent) ==
    /\ variant = "hypoglossal" /\ pc = "idle" /\ "Next" \in enabled
    /\ IF interface.amplitude_id >= hypoglossal_NUM_MEASURES
       THEN /\ last' = Step("Next", "IndexError")
            /\ UNCHANGED <<interface, enabled, value, entered>>
       ELSE hypoglossal_add_measure(measure, sent)
    /\ UNCHANGED <<variant, device, serialThread, pc, disk>>

\* done_calibration_callback
hypoglossal_done_calibration_callback(sent) ==
    /\ variant = "hypoglossal" /\ pc = "idle" /\ "Done calibration" \in enabled
    /\ IF interface.amplitude_id >= hypoglossal_NUM_MEASURES
       THEN /\ last' = Step("DoneCalibration", "IndexError")
            /\ UNCHANGED <<interface, enabled>>
       ELSE LET next == [interface EXCEPT !.current_amplitude =
                    int_times(50, hypoglossal_multiplier_values[
                                    interface.multipliers[interface.amplitude_id]])]
                en == hypoglossal_send_waveform_enabled(enabled,
                          next.calibrated, sent)
            IN  IF sent
                THEN /\ enabled' = configure_items(en,
                            << <<"Next", TRUE>>, <<"Done calibration", FALSE>> >>)
                     /\ interface' = [next EXCEPT !.ready = TRUE,
                                                  !.calibrated = TRUE]
                     /\ last' = StepOut("DoneCalibration", "ok",
                                         hypoglossal_waveform(next))
                ELSE /\ enabled' = en
                     /\ interface' = next
                     /\ last' = Step("DoneCalibration", "TransmissionError")
    /\ UNCHANGED <<variant, value, device, serialThread, pc, disk, entered>>

-----------------------------------------------------------------------------
(* hypoglossal_gui: the listener thread and the operator's typing *)

\* A monitor_serial that also files an integer line as the measurement of
\* the first trial.
hypoglossal_monitor_serial_recording(response) ==
    /\ variant = "hypoglossal" /\ serialThread = "while" /\ interface.ready
    /\ device.open
    /\ IF response \in Undecodable
       THEN /\ serialThread' = "dead"
            /\ UNCHANGED <<enabled, value, interface>>
       ELSE /\ serialThread' = "while"
            /\ IF ContainsOn(response)
               THEN /\ enabled' = hypoglossal_start_stimulation_status(enabled)
                    /\ value' = set_value(value, "##StimulationStatus", "On")
                    /\ UNCHANGED interface
               ELSE IF ContainsOff(response)
               THEN /\ enabled' = hypoglossal_stop_stimulation_status(enabled,
                                      interface.calibrated)
                    /\ value' = set_value(value, "##StimulationStatus", "Off")
                    /\ UNCHANGED interface
               ELSE IF IsInt(response)
               THEN /\ interface' = [interface EXCEPT
                                        !.current_amplitude = int_of(response),
                                        !.measures[0] = int_of(response)]
                    /\ value' = set_value(value, "##CurrentAmplitude",
                                          ToString(int_of(response)))
                    /\ UNCHANGED enabled
               ELSE UNCHANGED <<enabled, value, interface>>
    /\ UNCHANGED <<variant, device, pc, disk, last, entered>>

\* One turn of monitor_serial's loop in which interface.ready is True and
\* readline() returns `response`: decode and classify it.  (A turn with
\* ready False, or with nothing read, changes nothing.)  The turn is taken
\* as one step: no callback runs between the test of ready and the
\* handling of the line.
\* val == interface.greeting compares a str with bytes and is never true, so
\* a greeting falls through to int(val), which raises and is swallowed.
hypoglossal_monitor_serial(response) ==
    /\ variant = "hypoglossal" /\ serialThread = "while" /\ interface.ready
    /\ device.open
    /\ IF response \in Undecodable
       THEN /\ serialThread' = "dead"
            /\ UNCHANGED <<enabled, value, interface>>
       ELSE /\ serialThread' = "while"
            /\ IF ContainsOn(response)
               THEN /\ enabled' = hypoglossal_start_stimulation_status(enabled)
                    /\ value' = set_value(value, "##StimulationStatus", "On")
                    /\ UNCHANGED interface
               ELSE IF ContainsOff(response)
               THEN /\ enabled' = hypoglossal_stop_stimulation_status(enabled,
                                      interface.calibrated)
                    /\ value' = set_value(value, "##StimulationStatus", "Off")
                    /\ UNCHANGED interface
               ELSE IF IsInt(response)
               THEN /\ interface' = [interface EXCEPT
                                        !.current_amplitude = int_of(response)]
                    /\ value' = set_value(value, "##CurrentAmplitude",
                                          ToString(int_of(response)))
                    /\ UNCHANGED enabled
               ELSE UNCHANGED <<enabled, value, interface>>
    /\ UNCHANGED <<variant, device, pc, disk, last, entered>>

\* The operator types into an enabled input.
hypoglossal_type(tag, v) ==
    /\ variant = "hypoglossal" /\ pc = "idle" /\ tag \in enabled
    /\ value[tag] # v
    /\ value' = set_value(value, tag, v)
    /\ UNCHANGED <<variant, enabled, interface, device, serialThread, pc, disk,
                   last, entered>>

hypoglossal_Init ==
    /\ variant = "hypoglossal"
    /\ enabled = hypoglossal_enabled
    /\ value = hypoglossal_value
    /\ interface = hypoglossal_Interface
    /\ device = device_init
    /\ serialThread = "while"
    /\ pc = "idle"
    /\ disk \in [hypoglossal_paths -> {Absent, Original}]
    /\ disk["P1_hyomental.csv"] = Absent
    /\ last = Step("start", "ok")
    /\ entered = << >>

hypoglossal_Next ==
    \/ \E ok \in BOOLEAN : hypoglossal_connect_callback(ok)
    \/ hypoglossal_startSession_callback
    \/ \E ok \in BOOLEAN : hypoglossal_endSession_callback(ok)
    \/ \E sent \in BOOLEAN : hypoglossal_send_waveform_callback(sent)
    \/ hypoglossal_start_stimulation_callback
    \/ hypoglossal_stop_stimulation_callback
    \/ hypoglossal_stimulate_callback
    \/ hypoglossal_stimulate_callback_wake
    \/ \E measure \in MeasureInputs, sent \in BOOLEAN :
           hypoglossal_add_measure_callback(measure, sent)
    \/ \E sent \in BOOLEAN : hypoglossal_done_calibration_callback(sent)
    \/ \E response \in Lines : hypoglossal_monitor_serial(response)
    \/ \E v \in ParticipantInputs : hypoglossal_type("Participant##input", v)
    \/ \E v \in SessionRadioItems : hypoglossal_type("Session ID##input", v)
    \/ \E v \in ThresholdInputs :
           hypoglossal_type("Tolerance threshold (mA)##input", v)

SpecHypoglossal == hypoglossal_Init /\ [][hypoglossal_Next]_vars

-----------------------------------------------------------------------------
(* hypoglossal_gui with the listener's turn in two steps: the test of
   interface.ready, then the readline() it leads to.  Callbacks can run
   between the two. *)

\* monitor_serial, `if interface.ready == True:` found true: the thread goes
\* on to device.ser.readline().
hypoglossal_monitor_serial_ready ==
    /\ variant = "hypoglossal" /\ serialThread = "while"
    /\ interface.ready /\ device.open
    /\ serialThread' = "readline"
    /\ UNCHANGED <<variant, enabled, value, interface, device, pc, disk,
                   last, entered>>

\* monitor_serial, readline() returns: `response` is a line, or "" when the
\* read timed out; the line is decoded and classified whatever
\* interface.ready is by now.
hypoglossal_monitor_serial_readline(response) ==
    /\ variant = "hypoglossal" /\ serialThread = "readline"
    /\ IF response \in Undecodable
       THEN /\ serialThread' = "dead"
            /\ UNCHANGED <<enabled, value, interface>>
       ELSE /\ serialThread' = "while"
            /\ IF response = ""
               THEN UNCHANGED <<enabled, value, interface>>
               ELSE IF ContainsOn(response)
               THEN /\ enabled' = hypoglossal_start_stimulation_status(enabled)
                    /\ value' = set_value(value, "##StimulationStatus", "On")
                    /\ UNCHANGED interface
               ELSE IF ContainsOff(response)
               THEN /\ enabled' = hypoglossal_stop_stimulation_status(enabled,
                                      interface.calibrated)
                    /\ value' = set_value(value, "##StimulationStatus", "Off")
                    /\ UNCHANGED interface
               ELSE IF IsInt(response)
               THEN /\ interface' = [interface EXCEPT
                                        !.current_amplitude = int_of(response)]
                    /\ value' = set_value(value, "##CurrentAmplitude",
                                          ToString(int_of(response)))
                    /\ UNCHANGED enabled
               ELSE UNCHANGED <<enabled, value, interface>>
    /\ UNCHANGED <<variant, device, pc, disk, last, entered>>

\* The specification follows the two-step listener with one measure value
\* and with the lines that change the buttons; the threshold is left at 0.
race_measure == CHOOSE measure \in MeasureInputs : TRUE
race_Lines == {"On\r\n", "Off\r\n", ""}

hypoglossal_race_Next ==
    \/ \E ok \in BOOLEAN : hypoglossal_connect_callback(ok)
    \/ hypoglossal_startSession_callback
    \/ \E ok \in BOOLEAN : hypoglossal_endSession_callback(ok)
    \/ \E sent \in BOOLEAN : hypoglossal_send_waveform_callback(sent)
    \/ hypoglossal_start_stimulation_callback
    \/ hypoglossal_stop_stimulation_callback
    \/ hypoglossal_stimulate_callback
    \/ hypoglossal_stimulate_callback_wake
    \/ \E sent \in BOOLEAN :
           hypoglossal_add_measure_callback(race_measure, sent)
    \/ \E sent \in BOOLEAN : hypoglossal_done_calibration_callback(sent)
    \/ hypoglossal_monitor_serial_ready
    \/ \E response \in race_Lines :
           hypoglossal_monitor_serial_readline(response)
    \/ \E v \in ParticipantInputs : hypoglossal_type("Participant##input", v)
    \/ \E v \in SessionRadioItems : hypoglossal_type("Session ID##input", v)

SpecHypoglossalRace == hypoglossal_Init /\ [][hypoglossal_race_Next]_vars

-----------------------------------------------------------------------------
(* hypoglossal_gui: the trial rows of the dataset, one at a time, over all
   27 trials and every threshold up to MaxThreshold *)

\* One turn of endSession_callback's loop over range(NUM_MEASURES): the row
\* written for idx when measures[idx] holds `measure` and the threshold
\* input holds the value chosen initially.
hypoglossal_write_row(idx, measure) ==
    /\ variant = "hypoglossal rows"
    /\ entered' = (idx :> measure)
    /\ last' = StepOut("row", "ok",
           <<idx, hypoglossal_row(value["Tolerance threshold (mA)##input"],
                                  hypoglossal_tiled[idx], measure)>>)
    /\ UNCHANGED <<variant, enabled, value, interface, device, serialThread,
                   pc, disk>>

hypoglossal_rows_Init ==
    /\ variant = "hypoglossal rows"
    /\ enabled = hypoglossal_enabled
    /\ \E T \in 0 .. MaxThreshold :
           value = set_value(hypoglossal_value,
                             "Tolerance threshold (mA)##input", T)
    /\ interface = hypoglossal_Interface
    /\ device = device_init
    /\ serialThread = "while"
    /\ pc = "idle"
    /\ disk = [p \in hypoglossal_paths |-> Absent]
    /\ last = Step("start", "ok")
    /\ entered = << >>

hypoglossal_rows_Next ==
    \E idx \in DOMAIN hypoglossal_tiled, measure \in MeasureInputs :
        hypoglossal_write_row(idx, measure)

SpecHypoglossalRows == hypoglossal_rows_Init /\ [][hypoglossal_rows_Next]_vars

-----------------------------------------------------------------------------
(* amplitude_gui: the Interface object and the widgets *)

amplitude_Interface ==
    [connected |-> FALSE, inputCheck |-> FALSE, ready |-> FALSE,
     amplitudes |-> << >>, measures |-> << >>, num_measures |-> 0,
     current_amplitude |-> 0,
     filename |-> Unset]

amplitude_enabled == {"Connect"}
amplitude_value ==
    [t \in {"Participant##input", "Session ID##input", "Age##input",
            "Sex##input", "Pain threshold##input",
            "Discomfort threshold##input", "Waveform##input",
            "Frequency (Hz)##input",
            "##DeviceStatus", "##SessionStatus", "##OverallStatus",
            "##StimulationStatus", "##CurrentAmplitude", "##NumMeasures"} |->
        CASE t = "Participant##input" -> ""
          [] t = "Session ID##input" -> ""
          [] t = "Age##input" -> "30"
          [] t = "##DeviceStatus" -> "Not connected"
          [] t = "##SessionStatus" -> "Not started"
          [] t = "##OverallStatus" -> "Ready to connect"
          [] t = "##StimulationStatus" -> "Off"
          [] t = "##CurrentAmplitude" -> "Not specified"
          [] t = "##NumMeasures" -> "0"
          [] OTHER -> 0]

amplitude_paths ==
    {p \o "_" \o t \o ".csv" : p \in ParticipantInputs \ {""},
                               t \in amplitude_SessionInputs \ {""}}

\* Interface.parseInputs: the Interface after the call and the overall
\* status it sets ("" when it sets none).
amplitude_parseInputs(self) ==
    LET participantID == value["Participant##input"]
        sessionID == value["Session ID##input"]
        age == value["Age##input"]
        filename == participantID \o "_" \o sessionID \o ".csv"
    IN  IF participantID = ""
        THEN [self |-> [self EXCEPT !.inputCheck = FALSE],
              status |-> "Enter participant ID"]
        ELSE IF sessionID = ""
        THEN [self |-> [self EXCEPT !.inputCheck = FALSE],
              status |-> "Enter session ID"]
        ELSE IF age = ""
        THEN [self |-> [self EXCEPT !.inputCheck = FALSE],
              status |-> "Enter age"]
        ELSE IF exists(filename)
        THEN [self |-> [self EXCEPT !.inputCheck = FALSE,
                                    !.filename = filename],
              status |-> "File already exists"]
        ELSE [self |-> [self EXCEPT !.inputCheck = TRUE,
                                    !.filename = filename],
              status |-> ""]

amplitude_start_stimulation_status(en) ==
    configure_items(en, << <<"Start", FALSE>>, <<"Stop", TRUE>>,
                           <<"Stimulate", FALSE>>, <<"Send", FALSE>>,
                           <<"End session", FALSE>> >>)

amplitude_stop_stimulation_status(en) ==
    configure_items(en, << <<"Start", TRUE>>, <<"Stop", FALSE>>,
                           <<"Stimulate", TRUE>>, <<"Send", TRUE>>,
                           <<"End session", TRUE>> >>)

-----------------------------------------------------------------------------
(* amplitude_gui: the callbacks *)

\* A connect_callback that leaves the Connect button enabled.
amplitude_connect_callback_keeps_connect(ok) ==
    /\ variant = "amplitude" /\ pc = "idle" /\ "Connect" \in enabled
    /\ IF ok
       THEN /\ device' = [device EXCEPT !.open = TRUE]
            /\ interface' = [interface EXCEPT !.connected = TRUE]
            /\ enabled' = configure_items(enabled,
                   << <<"Participant##input", TRUE>>,
                      <<"Session ID##input", TRUE>>, <<"Age##input", TRUE>>,
                      <<"Sex##input", TRUE>>,
                      <<"Start session", TRUE>>, <<"End session", FALSE>> >>)
            /\ value' = set_values(value,
                   << <<"##DeviceStatus", "Connected">>,
                      <<"##OverallStatus", "Device connected">> >>)
            /\ last' = Step("Connect", "ok")
       ELSE /\ last' = Step("Connect", "ConnectionError")
            /\ UNCHANGED <<device, interface, enabled, value>>
    /\ UNCHANGED <<variant, serialThread, pc, disk, entered>>

\* connect_callback; device.connect() returns (ok) or raises.
amplitude_connect_callback(ok) ==
    /\ variant = "amplitude" /\ pc = "idle" /\ "Connect" \in enabled
    /\ IF ok
       THEN /\ device' = [device EXCEPT !.open = TRUE]
            /\ interface' = [interface EXCEPT !.connected = TRUE]
            /\ enabled' = configure_items(enabled,
                   << <<"Participant##input", TRUE>>,
                      <<"Session ID##input", TRUE>>, <<"Age##input", TRUE>>,
                      <<"Sex##input", TRUE>>, <<"Connect", FALSE>>,
                      <<"Start session", TRUE>>, <<"End session", FALSE>> >>)
            /\ value' = set_values(value,
                   << <<"##DeviceStatus", "Connected">>,
                      <<"##OverallStatus", "Device connected">> >>)
            /\ last' = Step("Connect", "ok")
       ELSE /\ last' = Step("Connect", "ConnectionError")
            /\ UNCHANGED <<device, interface, enabled, value>>
    /\ UNCHANGED <<variant, serialThread, pc, disk, entered>>

\* startSession_callback: parseInputs() is called and its inputCheck is
\* never looked at, so the rest of the callback always runs.
amplitude_startSession_callback ==
    /\ variant = "amplitude" /\ pc = "idle" /\ "Start session" \in enabled
    /\ LET parsed == amplitude_parseInputs(interface)
       IN  /\ interface' = parsed.self
           /\ last' = Step("StartSession",
                           IF parsed.status = "" THEN "ok" ELSE parsed.status)
    /\ enabled' = configure_items(enabled,
           << <<"Participant##input", FALSE>>, <<"Session ID##input", FALSE>>,
              <<"Age##input", FALSE>>, <<"Sex##input", FALSE>>,
              <<"End session", TRUE>>, <<"Start session", FALSE>>,
              <<"Waveform##input", TRUE>>, <<"Frequency (Hz)##input", TRUE>>,
              <<"Duration (s)##input", FALSE>>, <<"Send", TRUE>>,
              <<"Stimulate", FALSE>> >>)
    /\ value' = set_values(value,
           << <<"##SessionStatus", "Started">>,
              <<"##OverallStatus", "Session started">> >>)
    /\ entered' = << >>
    /\ UNCHANGED <<variant, device, serialThread, pc, disk>>

\* The dataset endSession_callback writes: the identity row, the threshold
\* row, then one row per idx in range(num_measures).
amplitude_dataset ==
    [identity |-> <<value["Participant##input"], value["Session ID##input"],
                    value["Age##input"], value["Sex##input"]>>,
     calibration |-> <<value["Discomfort threshold##input"],
                       value["Pain threshold##input"]>>,
     rows |-> [idx \in 1 .. interface.num_measures |->
                 <<interface.amplitudes[idx], interface.measures[idx]>>]]

\* endSession_callback; open(filename, 'w') succeeds (ok) or raises.
\* interface.filename does not exist until parseInputs got as far as
\* assigning it.
amplitude_endSession_callback(ok) ==
    /\ variant = "amplitude" /\ pc = "idle" /\ "End session" \in enabled
    /\ IF interface.filename = Unset
       THEN /\ last' = Step("EndSession", "AttributeError")
            /\ UNCHANGED <<disk, interface, enabled, value>>
       ELSE IF ~ok
       THEN /\ last' = Step("EndSession", "IOError")
            /\ UNCHANGED <<disk, interface, enabled, value>>
       ELSE /\ disk' = written(interface.filename)
            /\ interface' = [interface EXCEPT !.connected = FALSE,
                                              !.ready = FALSE]
            /\ enabled' = configure_items(enabled,
                   << <<"Connect", TRUE>>, <<"Start session", FALSE>>,
                      <<"End session", FALSE>>, <<"Waveform##input", FALSE>>,
                      <<"Frequency (Hz)##input", FALSE>>,
                      <<"Duration (s)##input", FALSE>>, <<"Send", FALSE>>,
                      <<"Stimulate", FALSE>>, <<"Start", FALSE>>,
                      <<"Discomfort threshold##input", FALSE>>,
                      <<"Pain threshold##input", FALSE>>,
                      <<"Amplitude##input", FALSE>>,
                      <<"Measurement##input", FALSE>>,
                      <<"Save measure", FALSE>> >>)
            /\ value' = set_values(value,
                   << <<"##SessionStatus", "Not started">>,
                      <<"##DeviceStatus", "Not connected">>,
                      <<"##OverallStatus", "Ready to connect">> >>)
            /\ last' = StepOut("EndSession", "ok",
                                <<interface.filename, amplitude_dataset>>)
    /\ UNCHANGED <<variant, device, serialThread, pc, entered>>

\* The waveform handed to device.send_waveform: the kind and frequency read
\* from the widgets, synthesised at the fixed amplitude 50.
amplitude_waveform == <<value["Waveform##input"],
                        value["Frequency (Hz)##input"], 50>>

\* send_waveform_callback (the Send button); device.send_waveform returns
\* (sent) or raises.
amplitude_send_waveform_callback(sent) ==
    /\ variant = "amplitude" /\ pc = "idle" /\ "Send" \in enabled
    /\ LET off == configure_items(enabled, << <<"Stimulate", FALSE>>,
                      <<"Send", FALSE>>, <<"End session", FALSE>> >>)
       IN  IF sent
           THEN /\ enabled' = configure_items(off,
                       << <<"Duration (s)##input", TRUE>>,
                          <<"Stimulate", TRUE>>, <<"Send", TRUE>>,
                          <<"End session", TRUE>>, <<"Start", TRUE>>,
                          <<"Discomfort threshold##input", TRUE>>,
                          <<"Pain threshold##input", TRUE>>,
                          <<"Amplitude##input", TRUE>>,
                          <<"Measurement##input", TRUE>>,
                          <<"Save measure", TRUE>> >>)
                /\ value' = set_value(value, "##CurrentAmplitude",
                                      ToString(interface.current_amplitude))
                /\ interface' = [interface EXCEPT !.ready = TRUE]
                /\ last' = StepOut("Send", "ok", amplitude_waveform)
           ELSE /\ enabled' = off
                /\ last' = Step("Send", "TransmissionError")
                /\ UNCHANGED <<value, interface>>
    /\ UNCHANGED <<variant, device, serialThread, pc, disk, entered>>

\* start_stimulation_callback
amplitude_start_stimulation_callback ==
    /\ variant = "amplitude" /\ pc = "idle" /\ "Start" \in enabled
    /\ enabled' = amplitude_start_stimulation_status(enabled)
    /\ value' = set_value(value, "##StimulationStatus", "On")
    /\ device' = [device EXCEPT !.stimulating = TRUE]
    /\ last' = Step("StartStimulation", "ok")
    /\ UNCHANGED <<variant, interface, serialThread, pc, disk, entered>>

\* stop_stimulation_callback
amplitude_stop_stimulation_callback ==
    /\ variant = "amplitude" /\ pc = "idle" /\ "Stop" \in enabled
    /\ device' = [device EXCEPT !.stimulating = FALSE]
    /\ enabled' = amplitude_stop_stimulation_status(enabled)
    /\ value' = set_value(value, "##StimulationStatus", "Off")
    /\ last' = Step("StopStimulation", "ok")
    /\ UNCHANGED <<variant, interface, serialThread, pc, disk, entered>>

\* stimulate_callback up to time.sleep(dur): start_stimulation().
\* The duration is taken as non-negative here (time.sleep returns); the
\* waveform_gui model follows a negative one.
amplitude_stimulate_callback ==
    /\ variant = "amplitude" /\ pc = "idle" /\ "Stimulate" \in enabled
    /\ enabled' = amplitude_start_stimulation_status(enabled)
    /\ value' = set_value(value, "##StimulationStatus", "On")
    /\ device' = [device EXCEPT !.stimulating = TRUE]
    /\ pc' = "stimulate_callback: sleep"
    /\ last' = Step("TimedStimulate", "sleeping")
    /\ UNCHANGED <<variant, interface, serialThread, disk, entered>>

\* stimulate_callback after time.sleep(dur) returns: stop_stimulation().
amplitude_stimulate_callback_wake ==
    /\ variant = "amplitude" /\ pc = "stimulate_callback: sleep"
    /\ device' = [device EXCEPT !.stimulating = FALSE]
    /\ enabled' = amplitude_stop_stimulation_status(enabled)
    /\ value' = set_value(value, "##StimulationStatus", "Off")
    /\ pc' = "idle"
    /\ last' = Step("TimedStimulate", "ok")
    /\ UNCHANGED <<variant, interface, serialThread, disk, entered>>

\* add_measure_callback (the Save measure button) with the values of the
\* Amplitude and Measurement inputs.  The lists grow without limit in the
\* source; the model stops appending at MaxMeasures.
amplitude_add_measure_callback(amplitude, measure) ==
    /\ variant = "amplitude" /\ pc = "idle" /\ "Save measure" \in enabled
    /\ interface.num_measures < MaxMeasures
    /\ interface' = [interface EXCEPT
                        !.amplitudes = Append(@, amplitude),
                        !.measures = Append(@, measure),
                        !.num_measures = @ + 1]
    /\ value' = set_value(value, "##NumMeasures",
                          ToString(interface.num_measures + 1))
    /\ entered' = Append(entered, <<amplitude, measure>>)
    /\ last' = Step("SaveMeasure", "ok")
    /\ UNCHANGED <<variant, enabled, device, serialThread, pc, disk>>

\* One turn of monitor_serial's loop in which interface.ready is True and
\* readline() returns `response` (see hypoglossal_monitor_serial).
amplitude_monitor_serial(response) ==
    /\ variant = "amplitude" /\ serialThread = "while" /\ interface.ready
    /\ device.open
    /\ IF response \in Undecodable
       THEN /\ serialThread' = "dead"
            /\ UNCHANGED <<enabled, value, interface>>
       ELSE /\ serialThread' = "while"
            /\ IF ContainsOn(response)
               THEN /\ enabled' = amplitude_start_stimulation_status(enabled)
                    /\ value' = set_value(value, "##StimulationStatus", "On")
                    /\ UNCHANGED interface
               ELSE IF ContainsOff(response)
               THEN /\ enabled' = amplitude_stop_stimulation_status(enabled)
                    /\ value' = set_value(value, "##StimulationStatus", "Off")
                    /\ UNCHANGED interface
               ELSE IF IsInt(response)
               THEN /\ interface' = [interface EXCEPT
                                        !.current_amplitude = int_of(response)]
                    /\ value' = set_value(value, "##CurrentAmplitude",
                                          ToString(int_of(response)))
                    /\ UNCHANGED enabled
               ELSE UNCHANGED <<enabled, value, interface>>
    /\ UNCHANGED <<variant, device, pc, disk, last, entered>>

\* The operator types into an enabled input.
amplitude_type(tag, v) ==
    /\ variant = "amplitude" /\ pc = "idle" /\ tag \in enabled
    /\ value[tag] # v
    /\ value' = set_value(value, tag, v)
    /\ UNCHANGED <<variant, enabled, interface, device, serialThread, pc, disk,
                   last, entered>>

amplitude_Init ==
    /\ variant = "amplitude"
    /\ enabled = amplitude_enabled
    /\ value = amplitude_value
    /\ interface = amplitude_Interface
    /\ device = device_init
    /\ serialThread = "while"
    /\ pc = "idle"
    /\ disk \in [amplitude_paths -> {Absent, Original}]
    /\ last = Step("start", "ok")
    /\ entered = << >>

amplitude_Next ==
    \/ \E ok \in BOOLEAN : amplitude_connect_callback(ok)
    \/ amplitude_startSession_callback
    \/ \E ok \in BOOLEAN : amplitude_endSession_callback(ok)
    \/ \E sent \in BOOLEAN : amplitude_send_waveform_callback(sent)
    \/ amplitude_start_stimulation_callback
    \/ amplitude_stop_stimulation_callback
    \/ amplitude_stimulate_callback
    \/ amplitude_stimulate_callback_wake
    \/ \E amplitude \in AmplitudeInputs, measure \in MeasureInputs :
           amplitude_add_measure_callback(amplitude, measure)
    \/ \E response \in Lines : amplitude_monitor_serial(response)
    \/ \E v \in ParticipantInputs : amplitude_type("Participant##input", v)
    \/ \E v \in amplitude_SessionInputs : amplitude_type("Session ID##input", v)

SpecAmplitude == amplitude_Init /\ [][amplitude_Next]_vars

-----------------------------------------------------------------------------
(* amplitude_gui with the listener's turn in two steps: the test of
   interface.ready, then the readline() it leads to.  Callbacks can run
   between the two. *)

\* monitor_serial, `if interface.ready == True:` found true: the thread goes
\* on to device.ser.readline().
amplitude_monitor_serial_ready ==
    /\ variant = "amplitude" /\ serialThread = "while"
    /\ interface.ready /\ device.open
    /\ serialThread' = "readline"
    /\ UNCHANGED <<variant, enabled, value, interface, device, pc, disk,
                   last, entered>>

\* monitor_serial, readline() returns: `response` is a line, or "" when the
\* read timed out; the line is decoded and classified whatever
\* interface.ready is by now.
amplitude_monitor_serial_readline(response) ==
    /\ variant = "amplitude" /\ serialThread = "readline"
    /\ IF response \in Undecodable
       THEN /\ serialThread' = "dead"
            /\ UNCHANGED <<enabled, value, interface>>
       ELSE /\ serialThread' = "while"
            /\ IF response = ""
               THEN UNCHANGED <<enabled, value, interface>>
               ELSE IF ContainsOn(response)
               THEN /\ enabled' = amplitude_start_stimulation_status(enabled)
                    /\ value' = set_value(value, "##StimulationStatus", "On")
                    /\ UNCHANGED interface
               ELSE IF ContainsOff(response)
               THEN /\ enabled' = amplitude_stop_stimulation_status(enabled)
                    /\ value' = set_value(value, "##StimulationStatus", "Off")
                    /\ UNCHANGED interface
               ELSE IF IsInt(response)
               THEN /\ interface' = [interface EXCEPT
                                        !.current_amplitude = int_of(response)]
                    /\ value' = set_value(value, "##CurrentAmplitude",
                                          ToString(int_of(response)))
                    /\ UNCHANGED enabled
               ELSE UNCHANGED <<enabled, value, interface>>
    /\ UNCHANGED <<variant, device, pc, disk, last, entered>>

amplitude_race_Next ==
    \/ \E ok \in BOOLEAN : amplitude_connect_callback(ok)
    \/ amplitude_startSession_callback
    \/ \E ok \in BOOLEAN : amplitude_endSession_callback(ok)
    \/ \E sent \in BOOLEAN : amplitude_send_waveform_callback(sent)
    \/ amplitude_start_stimulation_callback
    \/ amplitude_stop_stimulation_callback
    \/ amplitude_stimulate_callback
    \/ amplitude_stimulate_callback_wake
    \/ \E amplitude \in AmplitudeInputs, measure \in MeasureInputs :
           amplitude_add_measure_callback(amplitude, measure)
    \/ amplitude_monitor_serial_ready
    \/ \E response \in Lines \cup {""} :
           amplitude_monitor_serial_readline(response)
    \/ \E v \in ParticipantInputs : amplitude_type("Participant##input", v)
    \/ \E v \in amplitude_SessionInputs : amplitude_type("Session ID##input", v)

SpecAmplitudeRace == amplitude_Init /\ [][amplitude_race_Next]_vars

-----------------------------------------------------------------------------
(* amplitude_gui over two session IDs: a session can be followed by another
   one with a free output path in the same process *)

amplitude_sessions_SessionInputs == amplitude_SessionInputs \cup {"S2"}

amplitude_sessions_paths ==
    {p \o "_" \o t \o ".csv" : p \in ParticipantInputs \ {""},
                               t \in amplitude_sessions_SessionInputs \ {""}}

\* No dataset is on disk when the program starts.
amplitude_sessions_Init ==
    /\ variant = "amplitude"
    /\ enabled = amplitude_enabled
    /\ value = amplitude_value
    /\ interface = amplitude_Interface
    /\ device = device_init
    /\ serialThread = "while"
    /\ pc = "idle"
    /\ disk = [p \in amplitude_sessions_paths |-> Absent]
    /\ last = Step("start", "ok")
    /\ entered = << >>

amplitude_sessions_Next ==
    \/ \E ok \in BOOLEAN : amplitude_connect_callback(ok)
    \/ amplitude_startSession_callback
    \/ \E ok \in BOOLEAN : amplitude_endSession_callback(ok)
    \/ \E sent \in BOOLEAN : amplitude_send_waveform_callback(sent)
    \/ amplitude_start_stimulation_callback
    \/ amplitude_stop_stimulation_callback
    \/ amplitude_stimulate_callback
    \/ amplitude_stimulate_callback_wake
    \/ \E amplitude \in AmplitudeInputs, measure \in MeasureInputs :
           amplitude_add_measure_callback(amplitude, measure)
    \/ \E response \in Lines : amplitude_monitor_serial(response)
    \/ \E v \in ParticipantInputs : amplitude_type("Participant##input", v)
    \/ \E v \in amplitude_sessions_SessionInputs :
           amplitude_type("Session ID##input", v)

SpecAmplitudeSessions == amplitude_sessions_Init /\ [][amplitude_sessions_Next]_vars

-----------------------------------------------------------------------------
(* amplitude_gui: Interface.parseInputs on its own, over IDs that contain
   the separator *)

\* Participant and session IDs typed: non-empty, with and without '_'.
IdInputs == {"a", "aa", "a_", "_a"}

\* The operator sets an ID input.
amplitude_paths_type(tag, v) ==
    /\ variant = "amplitude paths"
    /\ value[tag] # v
    /\ value' = set_value(value, tag, v)
    /\ UNCHANGED <<variant, enabled, interface, device, serialThread, pc, disk,
                   last, entered>>

\* interface.parseInputs() on the inputs as they stand.  When it gets as far
\* as the filepath, the step keeps <<participant ID, session ID, filename>>,
\* and the triple of the derivation before it moves to `entered`.
amplitude_paths_parseInputs ==
    /\ variant = "amplitude paths"
    /\ LET parsed == amplitude_parseInputs(interface)
       IN  /\ interface' = parsed.self
           /\ IF parsed.status \in {"", "File already exists"}
              THEN /\ last' = StepOut("parseInputs", "ok",
                                 <<value["Participant##input"],
                                   value["Session ID##input"],
                                   parsed.self.filename>>)
                   /\ entered' = last.out
              ELSE /\ last' = Step("parseInputs", parsed.status)
                   /\ UNCHANGED entered
    /\ UNCHANGED <<variant, enabled, value, device, serialThread, pc, disk>>

\* No file exists: every path is free.
amplitude_paths_Init ==
    /\ variant = "amplitude paths"
    /\ enabled = amplitude_enabled
    /\ value = amplitude_value
    /\ interface = amplitude_Interface
    /\ device = device_init
    /\ serialThread = "while"
    /\ pc = "idle"
    /\ disk = << >>
    /\ last = Step("start", "ok")
    /\ entered = << >>

amplitude_paths_Next ==
    \/ \E v \in IdInputs : amplitude_paths_type("Participant##input", v)
    \/ \E v \in IdInputs : amplitude_paths_type("Session ID##input", v)
    \/ amplitude_paths_parseInputs

SpecAmplitudePaths == amplitude_paths_Init /\ [][amplitude_paths_Next]_vars

-----------------------------------------------------------------------------
(* amplitude_gui with the listener's turn statement by statement: the
   classification of a line, then each configure_item / set_value call of
   start_stimulation_status and stop_stimulation_status on its own.  The
   callbacks run in the GUI thread and can run between any two of them;
   Connect, Start session, Send, Start, Stop and End session are followed. *)

\* interface.greeting: the bytes object b'Hello'.
amplitude_greeting == [type |-> "bytes", data |-> "Hello"]

\* response.decode("utf-8").strip('\x00'): the line as a str.
decode(response) == [type |-> "str", data |-> response]

\* Python's == on str and bytes objects: objects of different types are
\* never equal.
py_eq(a, b) == a.type = b.type /\ a.data = b.data

\* The statements monitor_serial runs after it has classified a line, by
\* their line: the calls made there and the line that follows ("while" is
\* the top of the loop).  L416 is print("Greeting received"), L426 the
\* `pass` after int(val) has raised.
amplitude_steps_statements ==
    [L416 |-> [configure |-> << >>, set |-> << >>, next |-> "while"],
     L426 |-> [configure |-> << >>, set |-> << >>, next |-> "while"],
     L343 |-> [configure |-> << <<"Start", FALSE>> >>, set |-> << >>,
               next |-> "L344"],
     L344 |-> [configure |-> << <<"Stop", TRUE>> >>, set |-> << >>,
               next |-> "L345"],
     L345 |-> [configure |-> << <<"Stimulate", FALSE>> >>, set |-> << >>,
               next |-> "L346"],
     L346 |-> [configure |-> << <<"Send", FALSE>> >>, set |-> << >>,
               next |-> "L347"],
     L347 |-> [configure |-> << <<"End session", FALSE>> >>, set |-> << >>,
               next |-> "L349"],
     L349 |-> [configure |-> << >>,
               set |-> << <<"##StimulationStatus", "On">> >>,
               next |-> "while"],
     L354 |-> [configure |-> << <<"Start", TRUE>> >>, set |-> << >>,
               next |-> "L355"],
     L355 |-> [configure |-> << <<"Stop", FALSE>> >>, set |-> << >>,
               next |-> "L356"],
     L356 |-> [configure |-> << <<"Stimulate", TRUE>> >>, set |-> << >>,
               next |-> "L357"],
     L357 |-> [configure |-> << <<"Send", TRUE>> >>, set |-> << >>,
               next |-> "L358"],
     L358 |-> [configure |-> << <<"End session", TRUE>> >>, set |-> << >>,
               next |-> "L360"],
     L360 |-> [configure |-> << >>,
               set |-> << <<"##StimulationStatus", "Off">> >>,
               next |-> "while"]]

\* monitor_serial from the top of the loop to the branch taken: the test of
\* interface.ready, readline() returning `response`, decode, and the if /
\* elif chain.  The int branch is run here as a whole.
amplitude_steps_readline(response) ==
    /\ variant = "amplitude" /\ serialThread = "while" /\ interface.ready
    /\ device.open
    /\ IF response \in Undecodable
       THEN /\ serialThread' = "dead"
            /\ UNCHANGED <<value, interface>>
       ELSE IF py_eq(decode(response), amplitude_greeting)
       THEN /\ serialThread' = "L416"
            /\ UNCHANGED <<value, interface>>
       ELSE IF ContainsOn(response)
       THEN /\ serialThread' = "L343"
            /\ UNCHANGED <<value, interface>>
       ELSE IF ContainsOff(response)
       THEN /\ serialThread' = "L354"
            /\ UNCHANGED <<value, interface>>
       ELSE IF IsInt(response)
       THEN /\ serialThread' = "while"
            /\ interface' = [interface EXCEPT
                                !.current_amplitude = int_of(response)]
            /\ value' = set_value(value, "##CurrentAmplitude",
                                  ToString(int_of(response)))
       ELSE /\ serialThread' = "L426"
            /\ UNCHANGED <<value, interface>>
    /\ UNCHANGED <<variant, enabled, device, pc, disk, last, entered>>

\* The listener runs the statement it is at.
amplitude_steps_statement ==
    /\ variant = "amplitude"
    /\ serialThread \in DOMAIN amplitude_steps_statements
    /\ LET s == amplitude_steps_statements[serialThread]
       IN  /\ enabled' = configure_items(enabled, s.configure)
           /\ value' = set_values(value, s.set)
           /\ serialThread' = s.next
    /\ UNCHANGED <<variant, interface, device, pc, disk, last, entered>>

amplitude_steps_Next ==
    \/ \E ok \in BOOLEAN : amplitude_connect_callback(ok)
    \/ amplitude_startSession_callback
    \/ \E ok \in BOOLEAN : amplitude_endSession_callback(ok)
    \/ \E sent \in BOOLEAN : amplitude_send_waveform_callback(sent)
    \/ amplitude_start_stimulation_callback
    \/ amplitude_stop_stimulation_callback
    \/ \E response \in Lines : amplitude_steps_readline(response)
    \/ amplitude_steps_statement
    \/ \E v \in ParticipantInputs : amplitude_type("Participant##input", v)

SpecAmplitudeSteps == amplitude_Init /\ [][amplitude_steps_Next]_vars

-----------------------------------------------------------------------------
(* testgui: the Interface object and the widgets *)

\* The nine arrays nextWaveform_callback fills, each np.zeros(NUM_WAVEFORMS),
\* and the input each is read from.
testgui_arrays ==
    << <<"thresholds_perception", "Perception##input">>,
       <<"thresholds_sensory", "Sensory##input">>,
       <<"thresholds_motor", "Motor##input">>,
       <<"thresholds_discomfort", "Discomfort##input">>,
       <<"thresholds_pain", "Pain##input">>,
       <<"pain_scores", "Pain rating##input">>,
       <<"electrode_pain", "Electrode pain##input">>,
       <<"paraesthesia_pain", "Paraesthesia pain##input">>,
       <<"motor_pain", "Motor pain##input">> >>

testgui_array_names == {testgui_arrays[i][1] : i \in DOMAIN testgui_arrays}
testgui_array_inputs == {testgui_arrays[i][2] : i \in DOMAIN testgui_arrays}

\* NUM_WAVEFORMS = 8 in the source; the model keeps the first NumWaveforms.
testgui_NUM_WAVEFORMS == NumWaveforms

testgui_Interface ==
    [f \in {"connected", "inputCheck", "waveform_id", "waveforms", "filename"}
           \cup testgui_array_names |->
        CASE f \in {"connected", "inputCheck"} -> FALSE
          [] f = "waveform_id" -> 0
          [] f = "waveforms" -> [k \in 0 .. testgui_NUM_WAVEFORMS - 1 |-> k]
          [] f = "filename" -> Unset
          [] OTHER -> [k \in 0 .. testgui_NUM_WAVEFORMS - 1 |-> 0]]

testgui_enabled == {"Connect"}
testgui_value ==
    [t \in {"Participant##input", "Session ID##input", "Age##input",
            "Sex##input", "Amplitude (mA)##input",
            "##DeviceStatus", "##SessionStatus", "##OverallStatus",
            "##WaveformStatus"} \cup testgui_array_inputs |->
        CASE t = "Participant##input" -> ""
          [] t = "Session ID##input" -> ""
          [] t = "Age##input" -> "30"
          [] t = "##DeviceStatus" -> "Not connected"
          [] t = "##SessionStatus" -> "Not started"
          [] t = "##OverallStatus" -> "Ready to connect"
          [] t = "##WaveformStatus" -> "1"
          [] OTHER -> 0]

testgui_paths ==
    {p \o "_" \o t \o ".csv" : p \in ParticipantInputs \ {""},
                               t \in testgui_SessionInputs \ {""}}

\* A parseInputs that looks at the session ID before the participant ID.
testgui_parseInputs_session_first(self) ==
    LET participantID == value["Participant##input"]
        sessionID == value["Session ID##input"]
        age == value["Age##input"]
        filename == participantID \o "_" \o sessionID \o ".csv"
    IN  IF sessionID = ""
        THEN [self |-> [self EXCEPT !.inputCheck = FALSE],
              status |-> "Enter session ID"]
        ELSE IF participantID = ""
        THEN [self |-> [self EXCEPT !.inputCheck = FALSE],
              status |-> "Enter participant ID"]
        ELSE IF age = ""
        THEN [self |-> [self EXCEPT !.inputCheck = FALSE],
              status |-> "Enter age"]
        ELSE IF exists(filename)
        THEN [self |-> [self EXCEPT !.inputCheck = FALSE,
                                    !.filename = filename],
              status |-> "File already exists"]
        ELSE [self |-> [self EXCEPT !.inputCheck = TRUE,
                                    !.filename = filename],
              status |-> ""]

\* Interface.parseInputs: the Interface after the call and the overall
\* status it sets ("" when it sets none).
testgui_parseInputs(self) ==
    LET participantID == value["Participant##input"]
        sessionID == value["Session ID##input"]
        age == value["Age##input"]
        filename == participantID \o "_" \o sessionID \o ".csv"
    IN  IF participantID = ""
        THEN [self |-> [self EXCEPT !.inputCheck = FALSE],
              status |-> "Enter participant ID"]
        ELSE IF sessionID = ""
        THEN [self |-> [self EXCEPT !.inputCheck = FALSE],
              status |-> "Enter session ID"]
        ELSE IF age = ""
        THEN [self |-> [self EXCEPT !.inputCheck = FALSE],
              status |-> "Enter age"]
        ELSE IF exists(filename)
        THEN [self |-> [self EXCEPT !.inputCheck = FALSE,
                                    !.filename = filename],
              status |-> "File already exists"]
        ELSE [self |-> [self EXCEPT !.inputCheck = TRUE,
                                    !.filename = filename],
              status |-> ""]

\* The inputs and buttons of the experiment panel, which startSession_callback
\* enables (Stimulate excepted) and endSession_callback and the end of the
\* sequence disable.
testgui_experiment_items(flag) ==
    << <<"Amplitude (mA)##input", flag>>, <<"Duration (s)##input", flag>>,
       <<"Send", flag>>, <<"Stimulate", FALSE>>,
       <<"Perception##input", flag>>, <<"Sensory##input", flag>>,
       <<"Motor##input", flag>>, <<"Discomfort##input", flag>>,
       <<"Pain##input", flag>>, <<"Pain rating##input", flag>>,
       <<"Electrode pain##input", flag>>,
       <<"Paraesthesia pain##input", flag>>, <<"Motor pain##input", flag>>,
       <<"Next waveform", flag>> >>

-----------------------------------------------------------------------------
(* testgui: the callbacks *)

\* connect_callback; device.connect() returns (ok) or raises.
testgui_connect_callback(ok) ==
    /\ variant = "testgui" /\ pc = "idle" /\ "Connect" \in enabled
    /\ IF ok
       THEN /\ device' = [device EXCEPT !.open = TRUE]
            /\ interface' = [interface EXCEPT !.connected = TRUE]
            /\ enabled' = configure_items(enabled,
                   << <<"Participant##input", TRUE>>,
                      <<"Session ID##input", TRUE>>, <<"Age##input", TRUE>>,
                      <<"Sex##input", TRUE>>, <<"Connect", FALSE>>,
                      <<"Start session", TRUE>>, <<"End session", FALSE>> >>)
            /\ value' = set_values(value,
                   << <<"##DeviceStatus", "Connected">>,
                      <<"##OverallStatus", "Device connected">> >>)
            /\ last' = Step("Connect", "ok")
       ELSE /\ last' = Step("Connect", "ConnectionError")
            /\ UNCHANGED <<device, interface, enabled, value>>
    /\ UNCHANGED <<variant, serialThread, pc, disk, entered>>

\* A startSession_callback that resets the cursor and shuffles before it
\* looks at inputCheck.
testgui_startSession_callback_shuffle_first ==
    /\ variant = "testgui" /\ pc = "idle" /\ "Start session" \in enabled
    /\ LET parsed == testgui_parseInputs(interface)
       IN  /\ \E order \in shuffle(interface.waveforms) :
                  interface' = [parsed.self EXCEPT !.waveform_id = 0,
                                                   !.waveforms = order]
           /\ IF parsed.self.inputCheck
              THEN /\ enabled' = configure_items(enabled,
                          << <<"Participant##input", FALSE>>,
                             <<"Session ID##input", FALSE>>,
                             <<"Age##input", FALSE>>, <<"Sex##input", FALSE>>,
                             <<"End session", TRUE>>,
                             <<"Start session", FALSE>> >>
                          \o testgui_experiment_items(TRUE))
                   /\ value' = set_values(value,
                          << <<"##SessionStatus", "Started">>,
                             <<"##OverallStatus", "Session started">> >>)
                   /\ entered' = << >>
                   /\ last' = Step("StartSession", "ok")
              ELSE /\ value' = set_value(value, "##OverallStatus",
                                         parsed.status)
                   /\ last' = Step("StartSession", parsed.status)
                   /\ UNCHANGED <<enabled, entered>>
    /\ UNCHANGED <<variant, device, serialThread, pc, disk>>

\* startSession_callback
testgui_startSession_callback ==
    /\ variant = "testgui" /\ pc = "idle" /\ "Start session" \in enabled
    /\ LET parsed == testgui_parseInputs(interface)
       IN  IF parsed.self.inputCheck
           THEN /\ \E order \in shuffle(interface.waveforms) :
                       interface' = [parsed.self EXCEPT !.waveform_id = 0,
                                                        !.waveforms = order]
                /\ enabled' = configure_items(enabled,
                       << <<"Participant##input", FALSE>>,
                          <<"Session ID##input", FALSE>>,
                          <<"Age##input", FALSE>>, <<"Sex##input", FALSE>>,
                          <<"End session", TRUE>>,
                          <<"Start session", FALSE>> >>
                       \o testgui_experiment_items(TRUE))
                /\ value' = set_values(value,
                       << <<"##SessionStatus", "Started">>,
                          <<"##OverallStatus", "Session started">> >>)
                /\ entered' = << >>
                /\ last' = Step("StartSession", "ok")
           ELSE /\ interface' = parsed.self
                /\ value' = set_value(value, "##OverallStatus", parsed.status)
                /\ last' = Step("StartSession", parsed.status)
                /\ UNCHANGED <<enabled, entered>>
    /\ UNCHANGED <<variant, device, serialThread, pc, disk>>

\* The dataset endSession_callback writes: one row per idx in
\* range(NUM_WAVEFORMS), the waveform (its title's index) and the nine
\* array entries at idx.
testgui_dataset ==
    [rows |-> [idx \in 1 .. testgui_NUM_WAVEFORMS |->
                 <<idx - 1>> \o
                 [i \in DOMAIN testgui_arrays |->
                     interface[testgui_arrays[i][1]][idx - 1]]]]

\* endSession_callback; open(filename, 'w') succeeds (ok) or raises.
testgui_endSession_callback(ok) ==
    /\ variant = "testgui" /\ pc = "idle" /\ "End session" \in enabled
    /\ IF interface.filename = Unset
       THEN /\ last' = Step("EndSession", "AttributeError")
            /\ UNCHANGED <<disk, interface, enabled, value>>
       ELSE IF ~ok
       THEN /\ last' = Step("EndSession", "IOError")
            /\ UNCHANGED <<disk, interface, enabled, value>>
       ELSE /\ disk' = written(interface.filename)
            /\ interface' = [interface EXCEPT !.connected = FALSE]
            /\ enabled' = configure_items(enabled,
                   << <<"Participant##input", FALSE>>,
                      <<"Session ID##input", FALSE>>,
                      <<"Age##input", FALSE>>, <<"Sex##input", FALSE>>,
                      <<"Connect", TRUE>>, <<"Start session", FALSE>>,
                      <<"End session", FALSE>> >>
                   \o testgui_experiment_items(FALSE))
            /\ value' = set_values(value,
                   << <<"##SessionStatus", "Not started">>,
                      <<"##DeviceStatus", "Not connected">>,
                      <<"##OverallStatus", "Ready to connect">> >>)
            /\ last' = StepOut("EndSession", "ok",
                                <<interface.filename, testgui_dataset>>)
    /\ UNCHANGED <<variant, device, serialThread, pc, entered>>

\* send_waveform_callback (the Send button) with the value of the Amplitude
\* input; device.send_waveform returns (sent) or raises.  The waveform is
\* the one at the cursor, waveforms[waveform_id], at that amplitude.
testgui_send_waveform_callback(amplitude, sent) ==
    /\ variant = "testgui" /\ pc = "idle" /\ "Send" \in enabled
    /\ IF interface.waveform_id >= testgui_NUM_WAVEFORMS
       THEN /\ last' = Step("Send", "IndexError")
            /\ UNCHANGED enabled
       ELSE LET off == configure_items(enabled, << <<"Stimulate", FALSE>>,
                           <<"Send", FALSE>>, <<"End session", FALSE>>,
                           <<"Next waveform", FALSE>> >>)
            IN  IF sent
                THEN /\ enabled' = configure_items(off,
                            << <<"Stimulate", TRUE>>, <<"Send", TRUE>>,
                               <<"End session", TRUE>>,
                               <<"Next waveform", TRUE>> >>)
                     /\ last' = StepOut("Send", "ok",
                            <<interface.waveforms[interface.waveform_id],
                              amplitude>>)
                ELSE /\ enabled' = off
                     /\ last' = Step("Send", "TransmissionError")
    /\ UNCHANGED <<variant, value, interface, device, serialThread, pc, disk,
                   entered>>

\* stimulate_callback up to time.sleep(dur): buttons off, device.start().
\* The duration is taken as non-negative here (time.sleep returns); the
\* waveform_gui model follows a negative one.
testgui_stimulate_callback ==
    /\ variant = "testgui" /\ pc = "idle" /\ "Stimulate" \in enabled
    /\ enabled' = configure_items(enabled, << <<"Stimulate", FALSE>>,
                      <<"Send", FALSE>>, <<"End session", FALSE>>,
                      <<"Next waveform", FALSE>> >>)
    /\ device' = [device EXCEPT !.stimulating = TRUE]
    /\ pc' = "stimulate_callback: sleep"
    /\ last' = Step("TimedStimulate", "sleeping")
    /\ UNCHANGED <<variant, value, interface, serialThread, disk, entered>>

\* stimulate_callback after time.sleep(dur) returns: device.stop(), buttons on.
testgui_stimulate_callback_wake ==
    /\ variant = "testgui" /\ pc = "stimulate_callback: sleep"
    /\ device' = [device EXCEPT !.stimulating = FALSE]
    /\ enabled' = configure_items(enabled, << <<"Stimulate", TRUE>>,
                      <<"Send", TRUE>>, <<"End session", TRUE>>,
                      <<"Next waveform", TRUE>> >>)
    /\ pc' = "idle"
    /\ last' = Step("TimedStimulate", "ok")
    /\ UNCHANGED <<variant, value, interface, serialThread, disk, entered>>

\* The slot nextWaveform_callback stores into:
\* interface.waveforms[interface.waveform_id].
testgui_measure_slot(self) == self.waveforms[self.waveform_id]

\* The nine stores of nextWaveform_callback, each into its array at `slot`.
RECURSIVE testgui_store(_, _, _, _)
testgui_store(self, slot, readings, i) ==
    IF i > Len(testgui_arrays) THEN self
    ELSE testgui_store(
             [self EXCEPT ![testgui_arrays[i][1]][slot] =
                              readings[testgui_arrays[i][2]]],
             slot, readings, i + 1)

\* A nextWaveform_callback that moves to the next waveform without
\* disabling Stimulate.
testgui_nextWaveform_callback_keeps_stimulate(perception) ==
    /\ variant = "testgui" /\ pc = "idle" /\ "Next waveform" \in enabled
    /\ IF interface.waveform_id >= testgui_NUM_WAVEFORMS
       THEN /\ last' = Step("Next", "IndexError")
            /\ UNCHANGED <<interface, enabled, value, entered>>
       ELSE LET readings == [t \in testgui_array_inputs |->
                               IF t = "Perception##input" THEN perception
                               ELSE value[t]]
                slot == testgui_measure_slot(interface)
                stored == [testgui_store(interface, slot, readings, 1)
                              EXCEPT !.waveform_id = @ + 1]
            IN  /\ interface' = stored
                /\ entered' = (interface.waveforms[interface.waveform_id]
                                  :> perception) @@ entered
                /\ IF stored.waveform_id >= testgui_NUM_WAVEFORMS
                   THEN /\ enabled' = configure_items(enabled,
                                          testgui_experiment_items(FALSE))
                        /\ value' = set_value(value, "##OverallStatus",
                                              "Session complete")
                        /\ last' = Step("Next", "Session complete")
                   ELSE /\ enabled' = configure_items(enabled,
                               << <<"Send", TRUE>> >>)
                        /\ value' = set_value(value, "##WaveformStatus",
                                              ToString(stored.waveform_id + 1))
                        /\ last' = Step("Next", "ok")
    /\ UNCHANGED <<variant, device, serialThread, pc, disk>>

\* nextWaveform_callback (the Next waveform button); `perception` is the
\* value of the Perception input, the other eight inputs are read as they
\* stand.
testgui_nextWaveform_callback(perception) ==
    /\ variant = "testgui" /\ pc = "idle" /\ "Next waveform" \in enabled
    /\ IF interface.waveform_id >= testgui_NUM_WAVEFORMS
       THEN /\ last' = Step("Next", "IndexError")
            /\ UNCHANGED <<interface, enabled, value, entered>>
       ELSE LET readings == [t \in testgui_array_inputs |->
                               IF t = "Perception##input" THEN perception
                               ELSE value[t]]
                slot == testgui_measure_slot(interface)
                stored == [testgui_store(interface, slot, readings, 1)
                              EXCEPT !.waveform_id = @ + 1]
            IN  /\ interface' = stored
                /\ entered' = (interface.waveforms[interface.waveform_id]
                                  :> perception) @@ entered
                /\ IF stored.waveform_id >= testgui_NUM_WAVEFORMS
                   THEN /\ enabled' = configure_items(enabled,
                                          testgui_experiment_items(FALSE))
                        /\ value' = set_value(value, "##OverallStatus",
                                              "Session complete")
                        /\ last' = Step("Next", "Session complete")
                   ELSE /\ enabled' = configure_items(enabled,
                               << <<"Send", TRUE>>, <<"Stimulate", FALSE>> >>)
                        /\ value' = set_value(value, "##WaveformStatus",
                                              ToString(stored.waveform_id + 1))
                        /\ last' = Step("Next", "ok")
    /\ UNCHANGED <<variant, device, serialThread, pc, disk>>

\* The operator types into an enabled input.
testgui_type(tag, v) ==
    /\ variant = "testgui" /\ pc = "idle" /\ tag \in enabled
    /\ value[tag] # v
    /\ value' = set_value(value, tag, v)
    /\ UNCHANGED <<variant, enabled, interface, device, serialThread, pc, disk,
                   last, entered>>

\* testgui starts no listener thread.
testgui_Init ==
    /\ variant = "testgui"
    /\ enabled = testgui_enabled
    /\ value = testgui_value
    /\ interface = testgui_Interface
    /\ device = device_init
    /\ serialThread = "none"
    /\ pc = "idle"
    /\ disk \in [testgui_paths -> {Absent, Original}]
    /\ disk["P1_S1.csv"] = Absent
    /\ last = Step("start", "ok")
    /\ entered = << >>

testgui_Next ==
    \/ \E ok \in BOOLEAN : testgui_connect_callback(ok)
    \/ testgui_startSession_callback
    \/ \E ok \in BOOLEAN : testgui_endSession_callback(ok)
    \/ \E amplitude \in AmplitudeInputs, sent \in BOOLEAN :
           testgui_send_waveform_callback(amplitude, sent)
    \/ testgui_stimulate_callback
    \/ testgui_stimulate_callback_wake
    \/ \E perception \in MeasureInputs :
           testgui_nextWaveform_callback(perception)
    \/ \E v \in ParticipantInputs : testgui_type("Participant##input", v)
    \/ \E v \in testgui_SessionInputs : testgui_type("Session ID##input", v)

SpecTestgui == testgui_Init /\ [][testgui_Next]_vars

-----------------------------------------------------------------------------
(* waveform_gui (src/waveform_gui.py): free waveform testing.  No Interface
   object, no validation, no dataset, no listener: the callbacks act on the
   widgets and the device only.  (The claims cite this program as testgui.) *)

\* What the operator can type into the waveform_gui inputs.  The duration
\* is an add_input_int without bounds: it takes negative numbers too.
waveform_WaveformItems == {0, 2}
DurationInputs == {5, -1}

\* waveforms = ["Tonic", "Sinusoidal", "Wavelet", "Offset wavelet"], indexed
\* by the radio button's value.
waveform_waveforms == <<"Tonic", "Sinusoidal", "Wavelet", "Offset wavelet">>

waveform_Interface == << >>

waveform_enabled == {"Connect"}
waveform_value ==
    [t \in {"Waveform##input", "Frequency (Hz)##input",
            "Amplitude (mA)##input", "Duration (s)##input",
            "##DeviceStatus", "##SessionStatus", "##OverallStatus",
            "##CurrentWaveform", "##CurrentFrequency",
            "##CurrentAmplitude"} |->
        CASE t = "Duration (s)##input" -> 5
          [] t = "##DeviceStatus" -> "Not connected"
          [] t = "##SessionStatus" -> "Not started"
          [] t = "##OverallStatus" -> "Ready to connect"
          [] t \in {"##CurrentWaveform", "##CurrentFrequency",
                    "##CurrentAmplitude"} -> "Not specified"
          [] OTHER -> 0]

\* connect_callback; device.connect() returns (ok) or raises.
waveform_connect_callback(ok) ==
    /\ variant = "waveform" /\ pc = "idle" /\ "Connect" \in enabled
    /\ IF ok
       THEN /\ device' = [device EXCEPT !.open = TRUE]
            /\ enabled' = configure_items(enabled,
                   << <<"Connect", FALSE>>, <<"Start session", TRUE>>,
                      <<"End session", FALSE>> >>)
            /\ value' = set_values(value,
                   << <<"##DeviceStatus", "Connected">>,
                      <<"##OverallStatus", "Device connected">> >>)
            /\ last' = Step("Connect", "ok")
       ELSE /\ last' = Step("Connect", "ConnectionError")
            /\ UNCHANGED <<device, enabled, value>>
    /\ UNCHANGED <<variant, interface, serialThread, pc, disk, entered>>

\* startSession_callback: nothing is parsed or checked.
waveform_startSession_callback ==
    /\ variant = "waveform" /\ pc = "idle" /\ "Start session" \in enabled
    /\ enabled' = configure_items(enabled,
           << <<"End session", TRUE>>, <<"Start session", FALSE>>,
              <<"Waveform##input", TRUE>>, <<"Frequency (Hz)##input", TRUE>>,
              <<"Amplitude (mA)##input", TRUE>>,
              <<"Duration (s)##input", FALSE>>, <<"Send", TRUE>>,
              <<"Stimulate", FALSE>> >>)
    /\ value' = set_values(value,
           << <<"##SessionStatus", "Started">>,
              <<"##OverallStatus", "Session started">> >>)
    /\ last' = Step("StartSession", "ok")
    /\ UNCHANGED <<variant, interface, device, serialThread, pc, disk, entered>>

\* endSession_callback: nothing is written.
waveform_endSession_callback ==
    /\ variant = "waveform" /\ pc = "idle" /\ "End session" \in enabled
    /\ enabled' = configure_items(enabled,
           << <<"Connect", TRUE>>, <<"Start session", FALSE>>,
              <<"End session", FALSE>>, <<"Waveform##input", FALSE>>,
              <<"Frequency (Hz)##input", FALSE>>,
              <<"Amplitude (mA)##input", FALSE>>,
              <<"Duration (s)##input", FALSE>>, <<"Send", FALSE>>,
              <<"Stimulate", FALSE>> >>)
    /\ value' = set_values(value,
           << <<"##SessionStatus", "Not started">>,
              <<"##DeviceStatus", "Not connected">>,
              <<"##OverallStatus", "Ready to connect">> >>)
    /\ last' = Step("EndSession", "ok")
    /\ UNCHANGED <<variant, interface, device, serialThread, pc, disk, entered>>

\* send_waveform_callback (the Send button); device.send_waveform returns
\* (sent) or raises.
waveform_send_waveform_callback(sent) ==
    /\ variant = "waveform" /\ pc = "idle" /\ "Send" \in enabled
    /\ LET waveform == waveform_waveforms[value["Waveform##input"] + 1]
           frequency == value["Frequency (Hz)##input"]
           amplitude == value["Amplitude (mA)##input"]
           off == configure_items(enabled, << <<"Stimulate", FALSE>>,
                      <<"Send", FALSE>>, <<"End session", FALSE>> >>)
       IN  IF sent
           THEN /\ value' = set_values(value,
                       << <<"##CurrentWaveform", waveform>>,
                          <<"##CurrentFrequency", ToString(frequency)>>,
                          <<"##CurrentAmplitude", ToString(amplitude)>> >>)
                /\ enabled' = configure_items(off,
                       << <<"Duration (s)##input", TRUE>>,
                          <<"Stimulate", TRUE>>, <<"Send", TRUE>>,
                          <<"End session", TRUE>> >>)
                /\ last' = StepOut("Send", "ok",
                                    <<waveform, frequency, amplitude>>)
           ELSE /\ enabled' = off
                /\ last' = Step("Send", "TransmissionError")
                /\ UNCHANGED value
    /\ UNCHANGED <<variant, interface, device, serialThread, pc, disk, entered>>

\* stimulate_callback up to time.sleep(dur): buttons off, device.start();
\* time.sleep raises ValueError on a negative duration, and the callback
\* ends there.
waveform_stimulate_callback ==
    /\ variant = "waveform" /\ pc = "idle" /\ "Stimulate" \in enabled
    /\ enabled' = configure_items(enabled, << <<"Stimulate", FALSE>>,
                      <<"Send", FALSE>>, <<"End session", FALSE>> >>)
    /\ device' = [device EXCEPT !.stimulating = TRUE]
    /\ IF value["Duration (s)##input"] < 0
       THEN /\ last' = Step("TimedStimulate", "ValueError")
            /\ UNCHANGED pc
       ELSE /\ pc' = "stimulate_callback: sleep"
            /\ last' = Step("TimedStimulate", "sleeping")
    /\ UNCHANGED <<variant, value, interface, serialThread, disk, entered>>

\* stimulate_callback after time.sleep(dur) returns: device.stop(), buttons on.
waveform_stimulate_callback_wake ==
    /\ variant = "waveform" /\ pc = "stimulate_callback: sleep"
    /\ device' = [device EXCEPT !.stimulating = FALSE]
    /\ enabled' = configure_items(enabled, << <<"Stimulate", TRUE>>,
                      <<"Send", TRUE>>, <<"End session", TRUE>> >>)
    /\ pc' = "idle"
    /\ last' = Step("TimedStimulate", "ok")
    /\ UNCHANGED <<variant, value, interface, serialThread, disk, entered>>

\* The operator types into an enabled input.
waveform_type(tag, v) ==
    /\ variant = "waveform" /\ pc = "idle" /\ tag \in enabled
    /\ value[tag] # v
    /\ value' = set_value(value, tag, v)
    /\ UNCHANGED <<variant, enabled, interface, device, serialThread, pc, disk,
                   last, entered>>

\* waveform_gui starts no listener thread and touches no file.
waveform_Init ==
    /\ variant = "waveform"
    /\ enabled = waveform_enabled
    /\ value = waveform_value
    /\ interface = waveform_Interface
    /\ device = device_init
    /\ serialThread = "none"
    /\ pc = "idle"
    /\ disk = << >>
    /\ last = Step("start", "ok")
    /\ entered = << >>

waveform_Next ==
    \/ \E ok \in BOOLEAN : waveform_connect_callback(ok)
    \/ waveform_startSession_callback
    \/ waveform_endSession_callback
    \/ \E sent \in BOOLEAN : waveform_send_waveform_callback(sent)
    \/ waveform_stimulate_callback
    \/ waveform_stimulate_callback_wake
    \/ \E v \in waveform_WaveformItems : waveform_type("Waveform##input", v)
    \/ \E v \in AmplitudeInputs : waveform_type("Amplitude (mA)##input", v)
    \/ \E v \in DurationInputs : waveform_type("Duration (s)##input", v)

SpecWaveform == waveform_Init /\ [][waveform_Next]_vars

-----------------------------------------------------------------------------
(* The vocabulary of the claims, in terms of the programs' state *)

\* SessionActive: between a StartSession that went through and EndSession.
Started == value["##SessionStatus"] = "Started"

\* The buttons of the trial commands: SendWaveform (Load, Send),
\* StartStimulation, TimedStimulate, RecordMeasurement (Next, Next waveform,
\* Save measure) and DoneCalibration.
TrialCommands ==
    {"Load", "Send", "Start", "Stimulate", "Next", "Next waveform",
     "Save measure", "Done calibration"}

\* The trial cursor, the AdministrationOrder and the number of planned trials.
cursor ==
    IF variant = "testgui" THEN interface.waveform_id
    ELSE IF variant = "amplitude" THEN interface.num_measures
    ELSE interface.amplitude_id
AdministrationOrder ==
    IF variant = "testgui" THEN interface.waveforms ELSE interface.multipliers
NumPlanned ==
    IF variant = "testgui" THEN testgui_NUM_WAVEFORMS
    ELSE hypoglossal_NUM_MEASURES

\* The TrialRecord collection, by canonical index: the measure stored for
\* the index (hypoglossal_gui), the nine values stored for it (testgui).
RecordSlots ==
    IF variant = "testgui"
    THEN [k \in 0 .. testgui_NUM_WAVEFORMS - 1 |->
             [i \in DOMAIN testgui_arrays |->
                 interface[testgui_arrays[i][1]][k]]]
    ELSE interface.measures

\* The value the operator entered for a trial, as a record slot holds it.
AsSlot(measure) ==
    IF variant = "testgui"
    THEN [i \in DOMAIN testgui_arrays |->
             IF i = 1 THEN measure ELSE value[testgui_arrays[i][2]]]
    ELSE measure

\* The last callback was op and ended with result.
Ended(op, result) == last.op = op /\ last.result = result

\* The rows of the dataset the last callback wrote.
WrittenRows == last.out[2].rows

-----------------------------------------------------------------------------
(* C1 - C2: StartSession validation *)

\* C1: if the output path already exists when StartSession is issued, the
\* session does not start (the state stays Connected with status 'File
\* already exists'), and no command ever writes over a file that exists.
C1_ExistingOutputIsRejectedAndKept ==
    /\ Ended("StartSession", "File already exists")
          => /\ ~Started
             /\ "Start session" \in enabled
             /\ value["##OverallStatus"] = "File already exists"
    /\ \A path \in DOMAIN disk : disk[path] # Overwritten

\* C2: StartSession with an empty participant ID leaves the machine in
\* Connected (Start session enabled, End session and the trial commands
\* disabled, session status not 'Started') with the overall status
\* 'Enter participant ID'.
C2_EmptyParticipantIsRejected ==
    Ended("StartSession", "Enter participant ID")
       => /\ "Start session" \in enabled
          /\ "End session" \notin enabled
          /\ enabled \cap TrialCommands = {}
          /\ ~Started
          /\ value["##OverallStatus"] = "Enter participant ID"

-----------------------------------------------------------------------------
(* C3 - C5: the dataset's rows, the record slot, the administration order *)

\* C3 as claimed: the dataset written by EndSession has exactly m trial rows,
\* m the number of measurements recorded in the session.
C3_RowCountEqualsRecorded ==
    Ended("EndSession", "ok")
       => Len(WrittenRows) = Cardinality(DOMAIN entered)

\* C3 as amended: the dataset written by EndSession has one trial row per
\* canonical index, N*R rows (NUM_WAVEFORMS rows in testgui) in ascending
\* canonical order, however many measurements were recorded; the row of
\* each trial recorded in the session holds the value entered for it.
C3_OneRowPerCanonicalIndex ==
    Ended("EndSession", "ok")
       => /\ Len(WrittenRows) = NumPlanned
          /\ \A k \in 0 .. NumPlanned - 1 :
                /\ IF variant = "testgui"
                   THEN WrittenRows[k + 1][1] = k
                   ELSE WrittenRows[k + 1][2] = hypoglossal_multiplier_values[k]
                /\ k \in DOMAIN entered
                      => IF variant = "testgui"
                         THEN WrittenRows[k + 1][2] = entered[k]
                         ELSE WrittenRows[k + 1][3] = entered[k]

\* C3, witness: a session ended early, with some but not all trials recorded.
C3_Witness ==
    /\ Ended("EndSession", "ok")
    /\ Cardinality(DOMAIN entered) > 0
    /\ Cardinality(DOMAIN entered) < NumPlanned

\* C4: RecordMeasurement at cursor c writes the entered value into the record
\* slot AdministrationOrder[c], changes no other slot, and leaves the cursor
\* at c + 1: every step that advances the cursor or changes a slot does so.
C4_RecordGoesToCanonicalSlot ==
    [][(cursor' = cursor + 1 \/ RecordSlots' # RecordSlots)
          => /\ cursor < NumPlanned
             /\ cursor' = cursor + 1
             /\ AdministrationOrder' = AdministrationOrder
             /\ AdministrationOrder[cursor] \in DOMAIN entered'
             /\ RecordSlots' =
                   [RecordSlots EXCEPT ![AdministrationOrder[cursor]] =
                       AsSlot(entered'[AdministrationOrder[cursor]])]]_vars

\* C4, witness: the first trial of a session whose order does not start with
\* canonical index 0 has been recorded.
C4_Witness ==
    /\ Started /\ cursor = 1
    /\ AdministrationOrder[0] # 0
    /\ DOMAIN entered = {AdministrationOrder[0]}
    /\ RecordSlots[AdministrationOrder[0]] = AsSlot(entered[AdministrationOrder[0]])

\* C5: in every reachable state the AdministrationOrder is a permutation of
\* the canonical indices 0 .. N*R-1: every index appears exactly once.
C5_OrderIsPermutation ==
    /\ DOMAIN AdministrationOrder = 0 .. NumPlanned - 1
    /\ \A k \in 0 .. NumPlanned - 1 :
          Cardinality({i \in DOMAIN AdministrationOrder :
                          AdministrationOrder[i] = k}) = 1

\* C5, witness: a session has been ended and written, and a later session
\* started with an order that is not the ascending one.
C5_Witness ==
    /\ Started
    /\ \E path \in DOMAIN disk : disk[path] = Dataset
    /\ AdministrationOrder # [k \in 0 .. NumPlanned - 1 |-> k]

-----------------------------------------------------------------------------
(* C6 - C7: the end of the sequence *)

\* C6: once the cursor equals the number of planned trials in a session, no
\* trial command (Load, Start, Stimulate, Next, Done calibration) is enabled
\* before EndSession, whatever was issued earlier and whatever telemetry
\* the listener consumes afterwards.
C6_ExhaustedGatesTrialCommands ==
    (Started /\ cursor = NumPlanned) => enabled \cap TrialCommands = {}

\* C7: a RecordMeasurement attempted when all planned trials have been
\* recorded ends in the out-of-range error and leaves the cursor and every
\* stored record unchanged.
C7_RecordBeyondPlanIsRefused ==
    [][(Started /\ cursor = NumPlanned /\ last' # last /\ last'.op = "Next")
       => /\ last'.result = "IndexError"
          /\ cursor' = cursor
          /\ RecordSlots' = RecordSlots]_vars

\* The attempt beyond the plan has been made and refused.
C7_Witness ==
    /\ variant = "hypoglossal" /\ Started /\ cursor = NumPlanned
    /\ Ended("Next", "IndexError")
    /\ \A k \in DOMAIN entered : RecordSlots[k] = entered[k]
    /\ DOMAIN entered = DOMAIN RecordSlots

-----------------------------------------------------------------------------
(* C8: the trial rows of hypoglossal_gui *)

\* C8: trial row k of the dataset equals (floor(T * multiplier_k),
\* multiplier_k, the measurement entered for canonical trial k), for every
\* one of the 27 trials and every threshold T.  Multipliers are in tenths.
C8_RowIsFloorOfThresholdTimesMultiplier ==
    last.op = "row" =>
        LET k == last.out[1]
            T == value["Tolerance threshold (mA)##input"]
        IN  last.out[2] = <<(T * hypoglossal_tiled[k]) \div 10,
                            hypoglossal_tiled[k], entered[k]>>

-----------------------------------------------------------------------------
(* C9: EndSession during a session *)

\* The ways a callback ends by raising.
CommandFailures ==
    {"ConnectionError", "TransmissionError", "IndexError", "IOError",
     "AttributeError"}

\* C9: in every state of a started session in which no callback is
\* mid-execution (and none has been cut short by an exception), End session
\* is enabled - also while stimulation started with Start has not been
\* stopped, and after any telemetry line.
C9_EndSessionAlwaysEnabled ==
    (Started /\ pc = "idle" /\ last.result \notin CommandFailures)
        => "End session" \in enabled

-----------------------------------------------------------------------------
(* C10: the records at the start of a session *)

\* The TrialRecord collection holds nothing: the lists are empty
\* (amplitude_gui), the arrays are as constructed (hypoglossal_gui,
\* testgui).
RecordsEmpty ==
    CASE variant = "amplitude" ->
            /\ interface.amplitudes = << >>
            /\ interface.measures = << >>
            /\ interface.num_measures = 0
      [] variant = "hypoglossal" ->
            interface.measures = hypoglossal_Interface.measures
      [] OTHER ->
            \A i \in DOMAIN testgui_arrays :
                interface[testgui_arrays[i][1]]
                    = testgui_Interface[testgui_arrays[i][1]]

\* C10: right after a StartSession that started a session, the TrialRecord
\* collection is empty: nothing recorded in an earlier session is in memory.
C10_RecordsEmptyAtSessionStart ==
    (last.op = "StartSession" /\ Started) => RecordsEmpty

-----------------------------------------------------------------------------
(* C11 - C12: the listener *)

\* C11: when the listener consumes a line containing 'On' the observed
\* stimulation status is "On" afterwards, and when it consumes a line
\* containing 'Off' the status is "Off" afterwards; the status is a plain
\* value of the window that any callback reads without waiting.
C11_OnThenOffToggleTheStatus ==
    [][\A response \in {"On\r\n", "Off\r\n"} :
          amplitude_monitor_serial(response) =>
              value'["##StimulationStatus"]
                  = (IF response = "On\r\n" THEN "On" ELSE "Off")]_vars

\* The status shows "On" because of a line: the operator has not started
\* stimulation, and no callback is running.
C11_Witness ==
    /\ variant = "amplitude" /\ pc = "idle"
    /\ value["##StimulationStatus"] = "On"
    /\ ~device.stimulating
    /\ serialThread = "while"

\* C12: whatever lines the device delivers, the listener is still running.
C12_ListenerNeverTerminates == serialThread # "dead"

-----------------------------------------------------------------------------
(* C13: the commands while Disconnected *)

\* The buttons of every command other than Connect.
SessionCommands ==
    TrialCommands \cup {"Start session", "End session", "Stop"}

\* C13: whenever the machine is Disconnected (initially, and after each
\* EndSession until the next Connect) every command other than Connect is
\* disabled, whatever the listener thread does around EndSession.
C13_DisconnectedGatesCommands ==
    ~interface.connected => enabled \cap SessionCommands = {}

\* C17: the dataset is written only by the EndSession of a started session:
\* once EndSession has written it, nothing is written again before the next
\* StartSession that starts a session.
C17_DatasetWrittenOncePerSession ==
    [][((\/ amplitude_endSession_callback(TRUE)
         \/ hypoglossal_endSession_callback(TRUE)
         \/ testgui_endSession_callback(TRUE))
        /\ last'.result = "ok") => Started]_vars

-----------------------------------------------------------------------------
(* C14 - C16: commands that fail *)

\* C14: when device.connect() fails the machine remains Disconnected (the
\* connected flag false, Connect enabled, Start session and the identity
\* inputs disabled) and the failure is reported: the overall status changes
\* to a message about it.
C14_FailedConnectIsReported ==
    [][(\/ amplitude_connect_callback(FALSE)
        \/ hypoglossal_connect_callback(FALSE)
        \/ testgui_connect_callback(FALSE))
       => /\ ~interface'.connected
          /\ "Connect" \in enabled'
          /\ enabled' \cap {"Start session", "Participant##input",
                            "Session ID##input", "Age##input",
                            "Sex##input"} = {}
          /\ value'["##OverallStatus"] # value["##OverallStatus"]]_vars

\* C15: when device.send_waveform fails inside a command, the set of
\* enabled widgets after the command equals the set before it.
C15_FailedSendKeepsEnabledSet ==
    [][(last' # last /\ last'.result = "TransmissionError")
       => enabled' = enabled]_vars

\* C16: an EndSession whose write fails leaves the records, the cursor and
\* the administration order as they were, the session started and End
\* session enabled; an EndSession that succeeds after it writes the value
\* entered for every trial recorded in the session.
C16_FailedWriteKeepsRecords ==
    [][/\ (last' # last /\ last'.op = "EndSession"
           /\ last'.result = "IOError")
          => /\ RecordSlots' = RecordSlots
             /\ cursor' = cursor
             /\ AdministrationOrder' = AdministrationOrder
             /\ Started' /\ "End session" \in enabled'
       /\ (Ended("EndSession", "IOError") /\ last'.op = "EndSession"
           /\ last'.result = "ok")
          => \A k \in DOMAIN entered :
                 last'.out[2].rows[k + 1][3] = entered[k]]_vars

\* A write failed with a trial recorded, and the session is still open.
C16_Witness ==
    /\ variant = "hypoglossal" /\ Started
    /\ Ended("EndSession", "IOError")
    /\ cursor > 0 /\ DOMAIN entered # {}
    /\ "End session" \in enabled

-----------------------------------------------------------------------------
(* C18: the order of the validation *)

\* The output path the inputs name.
OutputPath ==
    value["Participant##input"] \o "_" \o
    (IF variant = "hypoglossal"
     THEN (IF value["Session ID##input"] = "Hyomental" THEN "hyomental"
           ELSE "tongue")
     ELSE value["Session ID##input"]) \o ".csv"

\* The first condition that fails, in the order participant ID empty,
\* session ID empty, age missing, output path exists; "ok" when none does.
FirstFailingCondition ==
    IF value["Participant##input"] = "" THEN "Enter participant ID"
    ELSE IF value["Session ID##input"] = "" THEN "Enter session ID"
    ELSE IF value["Age##input"] = "" THEN "Enter age"
    ELSE IF exists(OutputPath) THEN "File already exists"
    ELSE "ok"

-----------------------------------------------------------------------------
(* C19: who writes the telemetry state *)

\* The operator commands of the trial loop, as `last` names them.
TrialOps ==
    {"StartStimulation", "StopStimulation", "TimedStimulate", "Next",
     "DoneCalibration", "Load", "Send", "SaveMeasure"}

\* C19: no operator command of the trial loop changes the current
\* amplitude or the stimulation status: only listener steps write them.
C19_OnlyListenerWritesTelemetry ==
    [][(last' # last /\ last'.op \in TrialOps)
       => /\ interface'.current_amplitude = interface.current_amplitude
          /\ value'["##StimulationStatus"] = value["##StimulationStatus"]]_vars

-----------------------------------------------------------------------------
(* C20: calibration before recording, in hypoglossal_gui *)

\* C20: Next is enabled only in a session in which DoneCalibration has been
\* issued.  A session starts uncalibrated with Next disabled; the
\* calibrated flag is set only by a DoneCalibration issued in a session; and
\* Next becomes enabled only in a session, by that DoneCalibration or after
\* it.
C20_NextOnlyAfterCalibrationInSession ==
    [][/\ (hypoglossal_startSession_callback /\ Started')
          => (~interface'.calibrated /\ "Next" \notin enabled')
       /\ (interface'.calibrated /\ ~interface.calibrated)
          => (Started /\ last'.op = "DoneCalibration")
       /\ ("Next" \in enabled' /\ "Next" \notin enabled)
          => (Started' /\ interface'.calibrated)]_vars

-----------------------------------------------------------------------------
(* C21: the cursor at the start of a session *)

\* C21: right after a StartSession that passed validation and started a
\* session, the trial cursor (the number of measurements recorded in the
\* session) is 0 - in the first session and in every later one.
C21_CursorZeroAtSessionStart ==
    (Ended("StartSession", "ok") /\ Started) => cursor = 0

-----------------------------------------------------------------------------
(* C22: a measurement only for the trial that was administered *)

\* No waveform has been sent to the device since the cursor was last set:
\* the last callback run is the StartSession that reset the cursor, or the
\* RecordMeasurement that advanced it and sent nothing (testgui's Next
\* waveform sends nothing; hypoglossal_gui's Next sends the next trial's
\* waveform unless the transfer fails).
NothingSentSinceCursorSet ==
    \/ last.op = "StartSession"
    \/ /\ last.op = "Next"
       /\ (variant = "testgui" \/ last.result = "TransmissionError")

\* C22: a measurement is accepted (the cursor advances) only for a trial
\* whose waveform has been sent to the device since the cursor was last set.
C22_RecordOnlyForAdministeredTrial ==
    [][(cursor' = cursor + 1) => ~NothingSentSinceCursorSet]_vars

-----------------------------------------------------------------------------
(* C23: AdministerTrial *)

\* The amplitude of the trial at the cursor in hypoglossal_gui:
\* int(50 * multiplier_values[multipliers[amplitude_id]]).
hypoglossal_trial_amplitude ==
    int_times(50, hypoglossal_multiplier_values[
                      interface.multipliers[interface.amplitude_id]])

\* The step leaves the cursor, the administration order and every trial
\* record as they are.
TrialStateUnchanged ==
    /\ cursor' = cursor
    /\ AdministrationOrder' = AdministrationOrder
    /\ RecordSlots' = RecordSlots

\* C23: a Send (testgui) that goes through sends the waveform of the trial at
\* AdministrationOrder[cursor]; a Load (hypoglossal_gui) that goes through in
\* the trial loop, after DoneCalibration, sends the wavelet of the trial at
\* AdministrationOrder[cursor]; and every Send or Load, repeated or not,
\* leaves the cursor, the order and the records unchanged.
C23_AdministerSelectsTrialAtCursor ==
    [][/\ (\E amplitude \in AmplitudeInputs :
               testgui_send_waveform_callback(amplitude, TRUE))
          => /\ TrialStateUnchanged
             /\ last'.result = "ok"
                   => last'.out[1] = AdministrationOrder[cursor]
       /\ (\E sent \in BOOLEAN : hypoglossal_send_waveform_callback(sent))
          => /\ TrialStateUnchanged
             /\ (interface.calibrated /\ last'.result = "ok")
                   => /\ cursor < NumPlanned
                      /\ last'.out = <<"wavelet", hypoglossal_trial_amplitude>>
      ]_vars

-----------------------------------------------------------------------------
(* C24: the threshold after DoneCalibration *)

\* C24: once DoneCalibration has been issued in a session, a change of the
\* threshold input changes nothing in the dataset EndSession writes: the
\* calibration rows and the amplitude of every trial row stay as they were.
C24_CalibrationFixesThreshold ==
    [][(/\ Started /\ interface.calibrated
        /\ value'["Tolerance threshold (mA)##input"]
              # value["Tolerance threshold (mA)##input"])
       => /\ hypoglossal_dataset'.calibration = hypoglossal_dataset.calibration
          /\ hypoglossal_dataset'.rows = hypoglossal_dataset.rows]_vars

-----------------------------------------------------------------------------
(* C25: the amplitude written and the amplitude sent *)

\* The last callback sent a waveform to the device and nothing was run
\* since: in hypoglossal_gui the waveform is that of the trial at the cursor.
JustSent ==
    /\ last.op \in {"Load", "DoneCalibration", "Next"}
    /\ last.result = "ok"

\* C25: when a trial is recorded right after its waveform was sent, the
\* amplitude in the row the dataset holds for that trial equals the
\* amplitude of the waveform sent.
C25_WrittenAmplitudeIsSentAmplitude ==
    [][(JustSent /\ cursor' = cursor + 1)
       => hypoglossal_dataset'.rows[AdministrationOrder[cursor] + 1][1]
              = last.out[2]]_vars

-----------------------------------------------------------------------------
(* C26: the listener and the trial state *)

\* C26: a listener step leaves the administration order, the cursor and
\* every trial record unchanged, and what it does is determined by the line,
\* the enabled set, the calibrated flag and the rest of the Interface as it
\* finds them: the buttons by the line's kind, the current amplitude by the
\* line's number, nothing by the order, the cursor or the records.
C26_ListenerKeepsOffTrialState ==
    [][\A response \in Lines :
          hypoglossal_monitor_serial(response)
          => /\ TrialStateUnchanged
             /\ enabled' =
                   (IF ContainsOn(response)
                    THEN hypoglossal_start_stimulation_status(enabled)
                    ELSE IF ContainsOff(response)
                    THEN hypoglossal_stop_stimulation_status(enabled,
                             interface.calibrated)
                    ELSE enabled)
             /\ interface' =
                   (IF IsInt(response)
                    THEN [interface EXCEPT
                             !.current_amplitude = int_of(response)]
                    ELSE interface)]_vars

\* A trial has been recorded and the listener has since read an amplitude
\* from the device: the record is as entered.
C26_Witness ==
    /\ variant = "hypoglossal" /\ Started
    /\ cursor = 1 /\ DOMAIN entered = {AdministrationOrder[0]}
    /\ interface.current_amplitude = 42
    /\ value["##CurrentAmplitude"] = "42"
    /\ RecordSlots[AdministrationOrder[0]] = entered[AdministrationOrder[0]]

-----------------------------------------------------------------------------
(* C27: TimedStimulate *)

\* C27: a TimedStimulate command issues start() and is then waiting to issue
\* stop(); the next thing the callback thread does is that stop(), no other
\* command running in between; and when the command has returned the device
\* is not stimulating: the last it received is stop().
C27_TimedStimulateStartsThenStops ==
    [][/\ (pc = "idle" /\ last' # last /\ last'.op = "TimedStimulate")
          => /\ device'.stimulating
             /\ pc' = "stimulate_callback: sleep"
       /\ (pc = "stimulate_callback: sleep" /\ last' # last)
          => /\ last' = Step("TimedStimulate", "ok")
             /\ pc' = "idle"
             /\ ~device'.stimulating]_vars

-----------------------------------------------------------------------------
(* C28: one output path per identity *)

\* C28: two derivations of the output path from (participant ID, session ID)
\* pairs of non-empty strings that differ give paths that differ.
C28_OutputPathIsUniquePerIdentity ==
    (last.op = "parseInputs" /\ last.result = "ok" /\ entered # << >>)
       => (<<entered[1], entered[2]>> # <<last.out[1], last.out[2]>>
              => entered[3] # last.out[3])

-----------------------------------------------------------------------------
(* C29: a StartSession that fails validation *)

\* C29: a StartSession that fails validation (hypoglossal_gui, testgui)
\* leaves the administration order, the cursor and every record as they
\* were and changes no widget's enabled state; it ends with the status of
\* the failed check, not with an exception, and no session is started.
C29_FailedStartSessionHasNoSideEffects ==
    [][((testgui_startSession_callback \/ hypoglossal_startSession_callback)
        /\ last'.result # "ok")
       => /\ TrialStateUnchanged
          /\ enabled' = enabled
          /\ last'.result \notin CommandFailures
          /\ last'.result = value'["##OverallStatus"]
          /\ ~Started' /\ pc' = "idle"]_vars

\* A StartSession has been refused after an earlier session of the process
\* shuffled the order and recorded trials: order, cursor and records are
\* those the earlier session left.
C29_Witness ==
    /\ variant = "testgui"
    /\ Ended("StartSession", "File already exists")
    /\ ~Started /\ "Start session" \in enabled
    /\ cursor > 0
    /\ AdministrationOrder # [k \in 0 .. NumPlanned - 1 |-> k]
    /\ \E k \in DOMAIN RecordSlots : RecordSlots[k][1] # 0

-----------------------------------------------------------------------------
(* C30: the records after EndSession *)

\* C30: outside a session - from the EndSession that closed one to the
\* StartSession that starts the next - no step changes a trial record,
\* whatever the listener reads in between.
C30_RecordsFrozenAfterEndSession ==
    [][(~Started /\ ~Started') => RecordSlots' = RecordSlots]_vars

-----------------------------------------------------------------------------
(* C31: the listener over the lifetime of the process *)

\* C31: in every state (before the first waveform is sent and after
\* EndSession included) the listener thread can take a line from the device:
\* whatever line the device delivers, a turn of monitor_serial that consumes
\* and classifies it is possible, so that a fairly scheduled listener
\* consumes it.
C31_ListenerConsumesInEveryState ==
    \A response \in Lines :
        ENABLED (\/ amplitude_monitor_serial(response)
                 \/ hypoglossal_monitor_serial(response))

-----------------------------------------------------------------------------
(* C32: the greeting line *)

\* C32: when the listener consumes a line that is exactly the greeting
\* token, it marks the handshake as seen (it reaches the greeting branch of
\* monitor_serial, the only record the program keeps of the handshake) and
\* the stimulation flag, the current amplitude and the enabled state of
\* every control stay as they were.
C32_GreetingMarksHandshakeOnly ==
    [][amplitude_steps_readline(amplitude_greeting.data)
       => /\ serialThread' = "L416"
          /\ value'["##StimulationStatus"] = value["##StimulationStatus"]
          /\ interface'.current_amplitude = interface.current_amplitude
          /\ enabled' = enabled]_vars

-----------------------------------------------------------------------------
(* C33: the reads of AdministrationOrder[cursor] *)

\* C33: every command that reads AdministrationOrder[cursor] - Next and
\* Done calibration in hypoglossal_gui, Send and Next waveform in testgui -
\* is taken with 0 <= cursor < N*R: no enabled command indexes the order
\* out of range.
C33_OrderIsReadWithinRange ==
    [][((\/ \E measure \in MeasureInputs, sent \in BOOLEAN :
               hypoglossal_add_measure_callback(measure, sent)
         \/ \E sent \in BOOLEAN : hypoglossal_done_calibration_callback(sent)
         \/ \E amplitude \in AmplitudeInputs, sent \in BOOLEAN :
               testgui_send_waveform_callback(amplitude, sent)
         \/ \E perception \in ThresholdInputs :
               testgui_nextWaveform_callback(perception))
        => (0 <= cursor /\ cursor < NumPlanned))]_vars

-----------------------------------------------------------------------------
(* C34 - C35: the listener's control updates among the commands *)

\* C34: in every state of an active session in which no callback is
\* mid-execution and the listener is between two lines, End session or Stop
\* is enabled, however the listener's configure_item calls fell among the
\* callbacks.
C34_EndOrStopEnabledInSession ==
    (Started /\ pc = "idle" /\ serialThread = "while")
        => ("End session" \in enabled \/ "Stop" \in enabled)

\* C35: whenever the device is stimulating (start() has been issued and no
\* stop() after it), End session and the SendWaveform button (Send, Load)
\* are disabled, whenever the telemetry lines get consumed.
C35_StimulatingGatesEndAndSend ==
    device.stimulating => enabled \cap {"End session", "Send", "Load"} = {}

-----------------------------------------------------------------------------
(* C36: the amplitude sent for the trial at the cursor *)

\* C36: in hypoglossal_gui, whenever Done calibration, Next (its automatic
\* send) or a Load after the calibration sends a waveform, the cursor it
\* leaves is that of a planned trial and the amplitude sent is
\* int(50 * multiplier_values[AdministrationOrder[cursor]]), whatever
\* amplitude lines the listener has consumed.
C36_SentAmplitudeIsTrialAmplitude ==
    [][((\/ \E sent \in BOOLEAN : hypoglossal_done_calibration_callback(sent)
         \/ \E measure \in MeasureInputs, sent \in BOOLEAN :
               hypoglossal_add_measure_callback(measure, sent)
         \/ /\ interface.calibrated
            /\ \E sent \in BOOLEAN : hypoglossal_send_waveform_callback(sent))
        /\ last'.result = "ok")
       => /\ cursor' < NumPlanned
          /\ last'.out = <<"wavelet", hypoglossal_trial_amplitude'>>]_vars

-----------------------------------------------------------------------------
(* C37: DoneCalibration once per session *)

\* C37: in hypoglossal_gui, once Done calibration has been issued in a
\* session (interface.calibrated is set, and cleared again by End session),
\* the Done calibration button stays disabled until the session ends,
\* whatever Load, Start, Stop, Stimulate and Next commands follow.
C37_DoneCalibrationOncePerSession ==
    (variant = "hypoglossal" /\ Started /\ interface.calibrated)
        => "Done calibration" \notin enabled

-----------------------------------------------------------------------------
(* C38: TimedStimulate needs a waveform on the device *)

\* TimedStimulate is available, or running.
StimulateAvailable ==
    "Stimulate" \in enabled \/ pc = "stimulate_callback: sleep"

\* C38: in the two programs without a listener, Stimulate is enabled only if
\* a waveform has been sent for the current trial.  Step by step: Stimulate
\* is available after a step only if the step is a Send that went through,
\* or Stimulate was available before it and the step neither is a
\* StartSession nor moves the cursor (testgui; waveform_gui has no cursor).
C38_StimulateOnlyAfterSend ==
    [][StimulateAvailable'
       => \/ /\ \/ \E amplitude \in AmplitudeInputs :
                      testgui_send_waveform_callback(amplitude, TRUE)
                \/ waveform_send_waveform_callback(TRUE)
             /\ last'.result = "ok"
          \/ /\ StimulateAvailable
             /\ ~testgui_startSession_callback
             /\ ~waveform_startSession_callback
             /\ (variant = "waveform" \/ cursor' = cursor)]_vars

\* Stimulate is enabled again after a timed stimulation of a later trial.
C38_Witness ==
    /\ variant = "testgui" /\ "Stimulate" \in enabled
    /\ cursor > 0 /\ Ended("TimedStimulate", "ok")

-----------------------------------------------------------------------------
(* C39: Connect and the Disconnected state *)

\* The machine is Disconnected: the device status display, which Connect
\* sets to "Connected" and End session back to "Not connected".
Disconnected == value["##DeviceStatus"] = "Not connected"

\* C39: in every variant, whenever no callback is mid-execution, Connect is
\* enabled if and only if the machine is Disconnected - initially, and
\* after an End session with no later Connect; the connected flag, where
\* the variant has one, is clear exactly then.
C39_ConnectEnabledIffDisconnected ==
    pc = "idle"
        => /\ "Connect" \in enabled <=> Disconnected
           /\ variant # "waveform"
                 => (Disconnected <=> ~interface.connected)

\* An End session has gone through and Connect is enabled again.
C39_Witness ==
    /\ variant = "amplitude" /\ pc = "idle"
    /\ Ended("EndSession", "ok")
    /\ "Connect" \in enabled /\ Disconnected

=============================================================================
